---- MODULE Spec2Model ----
(***************************************************************************)
(* Trusty Yellow Cab account manager: the numeric parsers of the report    *)
(* forms, the derived totals, the dashboards' date filter and the          *)
(* persistence adapter (remote table service with a localStorage fallback) *)
(* driven by the React handlers of App, ReportForm, the two dashboards and *)
(* AdminManagement.                                                        *)
(*                                                                         *)
(* Numbers are exact decimals n * 10^-k; the rounding of JavaScript        *)
(* doubles is not modelled.                                                *)
(* Strings that the code inspects character by character are sequences of  *)
(* one-character strings.                                                  *)
(***************************************************************************)
EXTENDS Integers, Sequences, FiniteSets, TLC

VARIABLES
  pIn, pOut,         \* parser harness: the value handed to getVal, the results
  fIn, fOut,         \* filter harness: clock, time zone and reports; the render
  rDrivers,          \* remote table drivers
  rReports,          \* remote table daily_reports (snake_case rows)
  rAdminPwd,         \* remote row app_settings[admin_pwd], Null when absent
  lsDrivers,         \* localStorage tyc_drivers, Null when unset
  lsReports,         \* localStorage tyc_reports, Null when unset
  lsAdminPwd,        \* localStorage tyc_admin_pwd, Null when unset
  user,              \* App: user
  drivers,           \* App: drivers
  reports,           \* App: reports
  currentView,       \* App: currentView
  isLoading,         \* App: isLoading
  initPending,       \* initData: results Promise.all is still collecting
  error,             \* Login: error
  editingReport,     \* the mounted dashboard's editingReport, Null when closed
  nKeys,             \* changes typed into the open edit dialog
  pwdMessage,        \* AdminManagement: pwdMessage
  pwdTimers,         \* pending setTimeout callbacks of handlePasswordChange
  calls,             \* storageService calls that have not resolved yet
  nOps,              \* logins and writes started so far
  nextId,            \* the next identifier uuidv4() hands out
  ev                 \* what the last step did (observation only)

parseVars == <<pIn, pOut>>
filterVars == <<fIn, fOut>>
harnessVars == <<pIn, pOut, fIn, fOut>>
remoteVars == <<rDrivers, rReports, rAdminPwd>>
localVars == <<lsDrivers, lsReports, lsAdminPwd>>
appStateVars == <<user, drivers, reports, currentView, isLoading, initPending, error>>
dialogVars == <<editingReport, nKeys, pwdMessage, pwdTimers>>
appVars ==
  <<rDrivers, rReports, rAdminPwd, lsDrivers, lsReports, lsAdminPwd,
    user, drivers, reports, currentView, isLoading, initPending, error,
    editingReport, nKeys, pwdMessage, pwdTimers, calls, nOps, nextId, ev>>
vars ==
  <<pIn, pOut, fIn, fOut,
    rDrivers, rReports, rAdminPwd, lsDrivers, lsReports, lsAdminPwd,
    user, drivers, reports, currentView, isLoading, initPending, error,
    editingReport, nKeys, pwdMessage, pwdTimers, calls, nOps, nextId, ev>>

----------------------------------------------------------------------------
(* JavaScript values: strings, numbers, NaN *)

Str(s) == [t |-> "str", s |-> s]

\* the harnesses at rest
NoResult == [t |-> "none"]

ParseIdle == pIn = Str(<<>>) /\ pOut = NoResult

FilterIdle == fIn = NoResult /\ fOut = NoResult

RECURSIVE Pow10(_)
Pow10(k) == IF k = 0 THEN 1 ELSE 10 * Pow10(k - 1)

RECURSIVE Norm(_, _)
Norm(n, k) ==
  IF k > 0 /\ n % 10 = 0 THEN Norm(n \div 10, k - 1)
  ELSE [t |-> "num", n |-> n, k |-> k]

Num(i) == [t |-> "num", n |-> i, k |-> 0]

NaN == [t |-> "nan"]

Max(a, b) == IF a >= b THEN a ELSE b

Add(a, b) ==
  LET k == Max(a.k, b.k)
  IN  Norm(a.n * Pow10(k - a.k) + b.n * Pow10(k - b.k), k)

Sub(a, b) ==
  LET k == Max(a.k, b.k)
  IN  Norm(a.n * Pow10(k - a.k) - b.n * Pow10(k - b.k), k)

DigitChars == {"0", "1", "2", "3", "4", "5", "6", "7", "8", "9"}

DigitVal ==
  "0" :> 0 @@ "1" :> 1 @@ "2" :> 2 @@ "3" :> 3 @@ "4" :> 4 @@
  "5" :> 5 @@ "6" :> 6 @@ "7" :> 7 @@ "8" :> 8 @@ "9" :> 9

DigitChar == <<"0", "1", "2", "3", "4", "5", "6", "7", "8", "9">>

RECURSIVE DigitsToInt(_)
DigitsToInt(s) ==
  IF s = <<>> THEN 0
  ELSE 10 * DigitsToInt(SubSeq(s, 1, Len(s) - 1)) + DigitVal[s[Len(s)]]

RECURSIVE IntToDigits(_)
IntToDigits(n) ==
  IF n < 10 THEN <<DigitChar[n + 1]>>
  ELSE Append(IntToDigits(n \div 10), DigitChar[(n % 10) + 1])

RECURSIVE Zeros(_)
Zeros(c) == IF c = 0 THEN <<>> ELSE <<"0">> \o Zeros(c - 1)

\* Number.prototype.toString of a finite number
RECURSIVE NumberToString(_)
NumberToString(x) ==
  IF x.n < 0 THEN <<"-">> \o NumberToString([x EXCEPT !.n = 0 - x.n])
  ELSE LET d == IntToDigits(x.n)
           L == Len(d)
       IN  IF x.k = 0 THEN d
           ELSE IF L > x.k
             THEN SubSeq(d, 1, L - x.k) \o <<".">> \o SubSeq(d, L - x.k + 1, L)
           ELSE IF L - x.k > -6
             THEN <<"0", ".">> \o Zeros(x.k - L) \o d
           ELSE (IF L = 1 THEN d ELSE <<d[1], ".">> \o SubSeq(d, 2, L))
                \o <<"e", "-">> \o IntToDigits(x.k - L + 1)

\* val.toString()
toString(v) ==
  IF v.t = "str" THEN v.s
  ELSE IF v.t = "nan" THEN <<"N", "a", "N">>
  ELSE NumberToString(v)

\* JavaScript truthiness of a string or number
Truthy(v) ==
  IF v.t = "str" THEN v.s # <<>>
  ELSE IF v.t = "nan" THEN FALSE
  ELSE v.n # 0

\* x || 0
OrZero(x) == IF Truthy(x) THEN x ELSE Num(0)

\* s.replace(/[^0-9.]/g, '')
Cleaned(s) == SelectSeq(s, LAMBDA c : c \in DigitChars \cup {"."})

RECURSIVE DigitPrefix(_)
DigitPrefix(s) ==
  IF s = <<>> \/ s[1] \notin DigitChars THEN <<>>
  ELSE <<s[1]>> \o DigitPrefix(Tail(s))

\* parseFloat of a string over digits and '.', which is all the callers pass:
\* the longest prefix  digits [. digits]  or  . digits  , NaN when it is empty
ParseFloat(s) ==
  LET ip   == DigitPrefix(s)
      rest == SubSeq(s, Len(ip) + 1, Len(s))
      fp   == IF rest # <<>> /\ rest[1] = "." THEN DigitPrefix(Tail(rest))
              ELSE <<>>
  IN  IF ip = <<>> /\ fp = <<>> THEN NaN
      ELSE Norm(DigitsToInt(ip \o fp), Len(fp))

\* cleaned.split('.')
RECURSIVE Split(_)
Split(s) ==
  LET ip == DigitPrefix(s)
  IN  IF Len(ip) = Len(s) THEN <<ip>>
      ELSE <<ip>> \o Split(SubSeq(s, Len(ip) + 2, Len(s)))

\* getValForm with the clean-up step left out
getValFormNoClean(val) ==
  IF val.t # "str" THEN val
  ELSE IF ~Truthy(val) THEN Num(0)
  ELSE LET cleaned == SelectSeq(toString(val), LAMBDA c : c # ",")
           parts   == Split(cleaned)
       IN  IF Len(parts) > 2
             THEN OrZero(ParseFloat(parts[1] \o <<".">> \o parts[2]))
             ELSE OrZero(ParseFloat(cleaned))

\* ReportForm.getVal
getValForm(val) ==
  IF val.t # "str" THEN val
  ELSE IF ~Truthy(val) THEN Num(0)
  ELSE LET cleaned == Cleaned(toString(val))
           parts   == Split(cleaned)
       IN  IF Len(parts) > 2
             THEN OrZero(ParseFloat(parts[1] \o <<".">> \o parts[2]))
             ELSE OrZero(ParseFloat(cleaned))

\* AdminDashboard.getVal and DriverDashboard.getVal (same text)
getValEdit(val) ==
  LET str     == IF Truthy(val) THEN toString(val) ELSE <<>>
      cleaned == Cleaned(str)
  IN  OrZero(ParseFloat(cleaned))

----------------------------------------------------------------------------
(* Dates.  A report date and a custom bound are "YYYY-MM-DD" texts, kept   *)
(* as [y, m, d]; BlankDate is the empty text.  Instants are minutes since  *)
(* 2023-01-01T00:00Z; tz is the viewer's offset in minutes east of UTC.    *)

BlankDate == [y |-> 0, m |-> 0, d |-> 0]

Date(y, m, d) == [y |-> y, m |-> m, d |-> d]

IsLeap(y) == (y % 4 = 0 /\ y % 100 # 0) \/ y % 400 = 0

DaysInMonth(y, m) ==
  IF m = 2 THEN (IF IsLeap(y) THEN 29 ELSE 28)
  ELSE IF m \in {4, 6, 9, 11} THEN 30 ELSE 31

DaysInYear(y) == IF IsLeap(y) THEN 366 ELSE 365

RECURSIVE DaysBeforeYear(_)
DaysBeforeYear(y) ==
  IF y <= 2023 THEN 0 ELSE DaysBeforeYear(y - 1) + DaysInYear(y - 1)

RECURSIVE DaysBeforeMonth(_, _)
DaysBeforeMonth(y, m) ==
  IF m = 1 THEN 0 ELSE DaysBeforeMonth(y, m - 1) + DaysInMonth(y, m - 1)

DayNum(date) == DaysBeforeYear(date.y) + DaysBeforeMonth(date.y, date.m) + date.d - 1

RECURSIVE YMDFrom(_, _, _)
YMDFrom(y, m, n) ==
  IF m = 1 /\ n >= DaysInYear(y) THEN YMDFrom(y + 1, 1, n - DaysInYear(y))
  ELSE IF n >= DaysInMonth(y, m) THEN YMDFrom(y, m + 1, n - DaysInMonth(y, m))
  ELSE [y |-> y, m |-> m, d |-> n + 1]

YMD(n) == YMDFrom(2023, 1, n)

\* new Date("YYYY-MM-DD").getTime(): midnight UTC of that day
UtcMidnight(date) == DayNum(date) * 1440

\* getFullYear(), getMonth(), getDate() of an instant: local calendar fields
LocalFields(t, tz) == YMD((t + tz) \div 1440)

\* new Date(y, m, d).getTime(): local midnight of the calendar day
LocalMidnight(f, tz) == DayNum(f) * 1440 - tz

\* the range test with the end bound left out
inCustomRangeExclusiveEnd(rTime, startTime, endTime) ==
  rTime >= startTime /\ rTime < endTime

\* return rTime >= startTime && rTime <= endTime
inCustomRange(rTime, startTime, endTime) ==
  rTime >= startTime /\ rTime <= endTime

\* the date part with a blank custom bound matching no report
datePassesBlankMatchesNothing(date, dateFilter, customStart, customEnd, now, tz) ==
  LET reportDate == UtcMidnight(date)
      today      == LocalFields(now, tz)
      rFields    == LocalFields(reportDate, tz)
      current    == LocalMidnight(today, tz)
      rTime      == LocalMidnight(rFields, tz)
  IN  IF dateFilter = "today" THEN rTime = current
      ELSE IF dateFilter = "week" THEN rTime >= current - (7 * 24 * 60)
      ELSE IF dateFilter = "month"
        THEN rFields.m = today.m /\ rFields.y = today.y
      ELSE IF dateFilter = "year" THEN rFields.y = today.y
      ELSE IF dateFilter = "custom"
        THEN IF customStart = BlankDate \/ customEnd = BlankDate THEN FALSE
             ELSE LET startTime ==
                        LocalMidnight(LocalFields(UtcMidnight(customStart), tz), tz)
                      endTime ==
                        LocalMidnight(LocalFields(UtcMidnight(customEnd), tz), tz)
                  IN  inCustomRange(rTime, startTime, endTime)
      ELSE TRUE

\* the date part of the filter callback of filteredReports and myReports
datePasses(date, dateFilter, customStart, customEnd, now, tz) ==
  LET reportDate == UtcMidnight(date)
      today      == LocalFields(now, tz)
      rFields    == LocalFields(reportDate, tz)
      current    == LocalMidnight(today, tz)
      rTime      == LocalMidnight(rFields, tz)
  IN  IF dateFilter = "today" THEN rTime = current
      ELSE IF dateFilter = "week" THEN rTime >= current - (7 * 24 * 60)
      ELSE IF dateFilter = "month"
        THEN rFields.m = today.m /\ rFields.y = today.y
      ELSE IF dateFilter = "year" THEN rFields.y = today.y
      ELSE IF dateFilter = "custom"
        THEN IF customStart = BlankDate \/ customEnd = BlankDate THEN TRUE
             ELSE LET startTime ==
                        LocalMidnight(LocalFields(UtcMidnight(customStart), tz), tz)
                      endTime ==
                        LocalMidnight(LocalFields(UtcMidnight(customEnd), tz), tz)
                  IN  inCustomRange(rTime, startTime, endTime)
      ELSE TRUE

\* .sort((a, b) => new Date(b.date).getTime() - new Date(a.date).getTime()):
\* stable, latest date first
RECURSIVE InsertByDate(_, _)
InsertByDate(sorted, r) ==
  IF sorted = <<>> THEN <<r>>
  ELSE IF UtcMidnight(Head(sorted).date) - UtcMidnight(r.date) >= 0
    THEN <<Head(sorted)>> \o InsertByDate(Tail(sorted), r)
    ELSE <<r>> \o sorted

\* the list left in the order it came in
unsorted(rs) == rs

RECURSIVE sortByDateDesc(_)
sortByDateDesc(rs) ==
  IF rs = <<>> THEN <<>>
  ELSE InsertByDate(sortByDateDesc(SubSeq(rs, 1, Len(rs) - 1)), rs[Len(rs)])

\* AdminDashboard: filteredReports
filteredReports(list, filterDriver, dateFilter, customStart, customEnd, now, tz) ==
  sortByDateDesc(SelectSeq(list, LAMBDA r :
    IF filterDriver # "all" /\ r.driverId # filterDriver THEN FALSE
    ELSE datePasses(r.date, dateFilter, customStart, customEnd, now, tz)))

\* the driver's list without the test on driverId
myReportsOfAllDrivers(list, driverId, dateFilter, customStart, customEnd, now, tz) ==
  sortByDateDesc(SelectSeq(list, LAMBDA r :
    datePasses(r.date, dateFilter, customStart, customEnd, now, tz)))

\* DriverDashboard: myReports
myReports(list, driverId, dateFilter, customStart, customEnd, now, tz) ==
  sortByDateDesc(SelectSeq(list, LAMBDA r :
    IF r.driverId # driverId THEN FALSE
    ELSE datePasses(r.date, dateFilter, customStart, customEnd, now, tz)))

----------------------------------------------------------------------------
(* Records and the persistence adapter (storageService).  Identifiers are  *)
(* numbers: the mock drivers are 1 and 2, uuidv4() hands out nextId.       *)

Null == [t |-> "null"]

Chars(w) ==
  IF w = "admin" THEN <<"a", "d", "m", "i", "n">> ELSE <<>>

MOCK_DRIVERS ==
  << [id |-> 1, name |-> "Ramesh Kumar", vehicle |-> "TN 38 BR 1234", pin |-> "1234"],
     [id |-> 2, name |-> "Suresh Raj", vehicle |-> "TN 38 CS 5678", pin |-> "5678"] >>

Ids(rows) == {rows[i].id : i \in 1..Len(rows)}

\* findIndex(x => x.id === id), 0 when there is none
FindIndex(rows, id) ==
  IF id \in Ids(rows) THEN CHOOSE i \in 1..Len(rows) :
                             rows[i].id = id /\ \A j \in 1..(i - 1) : rows[j].id # id
  ELSE 0

\* the upsert that appends without looking for the identifier
putAlwaysAppend(rows, row) == Append(rows, row)

\* if (index >= 0) rows[index] = row; else rows.push(row)
\* (also the table service's upsert on the primary key id)
put(rows, row) ==
  LET index == FindIndex(rows, row.id)
  IN  IF index > 0 THEN [rows EXCEPT ![index] = row] ELSE Append(rows, row)

\* the filter with the comparison turned round: keeps what it should drop
withoutKeepsOnly(rows, id) == SelectSeq(rows, LAMBDA x : x.id = id)

\* rows.filter(x => x.id !== id)  (also the table service's delete().eq('id', id))
without(rows, id) == SelectSeq(rows, LAMBDA x : x.id # id)

\* getDrivers: the projection of a drivers row
driverOfRow(d) == [id |-> d.id, name |-> d.name, vehicle |-> d.vehicle, pin |-> d.pin]

\* saveDriver: the row handed to upsert
rowOfDriver(driver) ==
  [id |-> driver.id, name |-> driver.name, vehicle |-> driver.vehicle, pin |-> driver.pin]

\* Number(x) of a value read back from a row
Number(x) ==
  IF x.t = "num" \/ x.t = "nan" THEN x
  ELSE IF x.t = "null" THEN Num(0)
  ELSE IF x.s = <<>> THEN Num(0)
  ELSE IF Cleaned(x.s) = x.s /\ Len(Split(x.s)) <= 2 THEN ParseFloat(x.s)
  ELSE NaN

\* saveReport: dbReport
rowOfReport(report) ==
  [id |-> report.id, driver_id |-> report.driverId, driver_name |-> report.driverName,
   date |-> report.date, kms_driven |-> report.kmsDriven,
   login_time |-> report.loginTime, logout_time |-> report.logoutTime,
   income |-> report.income, expenses |-> report.expenses,
   total_income |-> report.totalIncome, total_expenses |-> report.totalExpenses,
   driver_salary |-> report.driverSalary, net_profit |-> report.netProfit,
   notes |-> report.notes, timestamp |-> report.timestamp]

\* getReports: the mapping of a daily_reports row
reportOfRow(r) ==
  [id |-> r.id, driverId |-> r.driver_id, driverName |-> r.driver_name,
   date |-> r.date, kmsDriven |-> Number(r.kms_driven),
   loginTime |-> r.login_time, logoutTime |-> r.logout_time,
   income |-> r.income, expenses |-> r.expenses,
   totalIncome |-> Number(r.total_income), totalExpenses |-> Number(r.total_expenses),
   driverSalary |-> Number(r.driver_salary), netProfit |-> Number(r.net_profit),
   notes |-> r.notes, timestamp |-> Number(r.timestamp)]

MapSeq(f(_), rows) == [i \in 1..Len(rows) |-> f(rows[i])]

\* JSON.parse(JSON.stringify(v)) of a number or string: NaN comes back null
jsonValue(v) == IF v.t = "nan" THEN Null ELSE v

\* JSON.parse(JSON.stringify(report))
jsonReport(r) ==
  [r EXCEPT !.kmsDriven = jsonValue(@), !.totalIncome = jsonValue(@),
            !.totalExpenses = jsonValue(@), !.driverSalary = jsonValue(@),
            !.netProfit = jsonValue(@), !.timestamp = jsonValue(@)]

\* a value that is present where Null stands for null / unset
Some(v) == [t |-> "some", v |-> v]

\* getDrivers, catch branch: what it returns and what it leaves in tyc_drivers
getDriversLocal(stored) ==
  IF stored = Null THEN [list |-> MOCK_DRIVERS, ls |-> Some(MOCK_DRIVERS)]
  ELSE [list |-> stored.v, ls |-> stored]

\* the catch branch that starts from an empty list
getReportsLocalEmpty(stored) == <<>>

\* getReports, catch branch
getReportsLocal(stored) == IF stored = Null THEN <<>> ELSE stored.v

\* getAdminPassword, try branch after a reply without error
adminPwdOfReply(data) == IF data = Null THEN Chars("admin") ELSE data.v

\* the catch branch without the default
getAdminPasswordLocalNoDefault(stored) ==
  IF stored = Null THEN <<>> ELSE stored.v

\* getAdminPassword, catch branch
getAdminPasswordLocal(stored) ==
  IF stored = Null THEN Chars("admin")
  ELSE IF stored.v = <<>> THEN Chars("admin") ELSE stored.v

----------------------------------------------------------------------------
(* Building reports: ReportForm.handleSubmit and handleUpdateReport *)

\* the report form with the salary left out of the expenses total
newReportSalaryNotCounted(driver, date, f, id, now) ==
  LET totalIncome ==
        Add(Add(getValForm(f.local), getValForm(f.outstation)), getValForm(f.mixed))
      totalExpenses ==
        Add(Add(Add(getValForm(f.fuel), getValForm(f.maintenance)),
                getValForm(f.toll)), getValForm(f.other))
      driverSalary == getValForm(f.salary)
      netProfit    == Sub(totalIncome, totalExpenses)
  IN  [id |-> id, driverId |-> driver.id, driverName |-> driver.name, date |-> date,
       kmsDriven |-> getValForm(f.kmsDriven),
       loginTime |-> IF f.loginTime = "" THEN "00:00" ELSE f.loginTime,
       logoutTime |-> IF f.logoutTime = "" THEN "00:00" ELSE f.logoutTime,
       income |-> [local |-> getValForm(f.local),
                   outstation |-> getValForm(f.outstation),
                   mixed |-> getValForm(f.mixed)],
       expenses |-> [fuel |-> getValForm(f.fuel),
                     maintenance |-> getValForm(f.maintenance),
                     toll |-> getValForm(f.toll),
                     other |-> getValForm(f.other)],
       totalIncome |-> totalIncome, totalExpenses |-> totalExpenses,
       driverSalary |-> driverSalary, netProfit |-> netProfit,
       notes |-> f.notes, timestamp |-> Num(now)]

\* ReportForm: the auto-calculated totals and newReport of handleSubmit
newReport(driver, date, f, id, now) ==
  LET totalIncome ==
        Add(Add(getValForm(f.local), getValForm(f.outstation)), getValForm(f.mixed))
      totalExpenses ==
        Add(Add(Add(Add(getValForm(f.fuel), getValForm(f.maintenance)),
                    getValForm(f.toll)), getValForm(f.other)), getValForm(f.salary))
      driverSalary == getValForm(f.salary)
      netProfit    == Sub(totalIncome, totalExpenses)
  IN  [id |-> id, driverId |-> driver.id, driverName |-> driver.name, date |-> date,
       kmsDriven |-> getValForm(f.kmsDriven),
       loginTime |-> IF f.loginTime = "" THEN "00:00" ELSE f.loginTime,
       logoutTime |-> IF f.logoutTime = "" THEN "00:00" ELSE f.logoutTime,
       income |-> [local |-> getValForm(f.local),
                   outstation |-> getValForm(f.outstation),
                   mixed |-> getValForm(f.mixed)],
       expenses |-> [fuel |-> getValForm(f.fuel),
                     maintenance |-> getValForm(f.maintenance),
                     toll |-> getValForm(f.toll),
                     other |-> getValForm(f.other)],
       totalIncome |-> totalIncome, totalExpenses |-> totalExpenses,
       driverSalary |-> driverSalary, netProfit |-> netProfit,
       notes |-> f.notes, timestamp |-> Num(now)]

\* the edit that keeps the totals it found in the record
updatedKeepsTotals(er) ==
  [er EXCEPT
     !.income = [local |-> getValEdit(er.income.local),
                 outstation |-> getValEdit(er.income.outstation),
                 mixed |-> getValEdit(er.income.mixed)],
     !.expenses = [fuel |-> getValEdit(er.expenses.fuel),
                   maintenance |-> getValEdit(er.expenses.maintenance),
                   toll |-> getValEdit(er.expenses.toll),
                   other |-> getValEdit(er.expenses.other)],
     !.driverSalary = getValEdit(er.driverSalary)]

\* the edit that subtracts the trip expenses only
updatedProfitBeforeSalary(er) ==
  LET incLocal == getValEdit(er.income.local)
      incOut   == getValEdit(er.income.outstation)
      incMixed == getValEdit(er.income.mixed)
      expFuel  == getValEdit(er.expenses.fuel)
      expMaint == getValEdit(er.expenses.maintenance)
      expToll  == getValEdit(er.expenses.toll)
      expOther == getValEdit(er.expenses.other)
      salary   == getValEdit(er.driverSalary)
      newTotalIncome   == Add(Add(incLocal, incOut), incMixed)
      tripOnly         == Add(Add(Add(expFuel, expMaint), expToll), expOther)
      newTotalExpenses == Add(tripOnly, salary)
      newNetProfit     == Sub(newTotalIncome, tripOnly)
  IN  [er EXCEPT
         !.income = [local |-> incLocal, outstation |-> incOut, mixed |-> incMixed],
         !.expenses = [fuel |-> expFuel, maintenance |-> expMaint,
                       toll |-> expToll, other |-> expOther],
         !.driverSalary = salary,
         !.totalIncome = newTotalIncome,
         !.totalExpenses = newTotalExpenses,
         !.netProfit = newNetProfit]

\* handleUpdateReport of AdminDashboard and of DriverDashboard: updated
updated(er) ==
  LET incLocal == getValEdit(er.income.local)
      incOut   == getValEdit(er.income.outstation)
      incMixed == getValEdit(er.income.mixed)
      expFuel  == getValEdit(er.expenses.fuel)
      expMaint == getValEdit(er.expenses.maintenance)
      expToll  == getValEdit(er.expenses.toll)
      expOther == getValEdit(er.expenses.other)
      salary   == getValEdit(er.driverSalary)
      newTotalIncome   == Add(Add(incLocal, incOut), incMixed)
      newTotalExpenses == Add(Add(Add(Add(expFuel, expMaint), expToll), expOther), salary)
      newNetProfit     == Sub(newTotalIncome, newTotalExpenses)
  IN  [er EXCEPT
         !.income = [local |-> incLocal, outstation |-> incOut, mixed |-> incMixed],
         !.expenses = [fuel |-> expFuel, maintenance |-> expMaint,
                       toll |-> expToll, other |-> expOther],
         !.driverSalary = salary,
         !.totalIncome = newTotalIncome,
         !.totalExpenses = newTotalExpenses,
         !.netProfit = newNetProfit]

\* handleEditValChange(val, category, field)
editValChange(er, val, category, field) ==
  IF category = "income" THEN [er EXCEPT !.income[field] = val]
  ELSE IF category = "expenses" THEN [er EXCEPT !.expenses[field] = val]
  ELSE IF category = "salary" THEN [er EXCEPT !.driverSalary = val]
  ELSE IF category = "logistics" THEN [er EXCEPT ![field] = val]
  ELSE er

----------------------------------------------------------------------------
(* The application: initial load, the storageService calls in flight, and  *)
(* the handlers of Login, App, ReportForm, the dashboards, AdminManagement *)

MaxOps == 2
MaxInFlight == 2

Ch1(a) == <<a>>
Blank == Str(<<>>)

\* the end-to-end scenario: 500 / 0 / 0 in, 100 / 0 / 0 / 0 and 50 out
ScenarioForm ==
  [local |-> Str(<<"5", "0", "0">>), outstation |-> Str(<<"0">>), mixed |-> Str(<<"0">>),
   fuel |-> Str(<<"1", "0", "0">>), maintenance |-> Str(<<"0">>), toll |-> Str(<<"0">>),
   other |-> Str(<<"0">>), salary |-> Str(<<"5", "0">>),
   kmsDriven |-> Blank, loginTime |-> "", logoutTime |-> "", notes |-> ""]

\* blanks, several decimal points, fractions
OddForm ==
  [local |-> Str(<<"1", ".", "2", ".", "3">>), outstation |-> Blank,
   mixed |-> Str(<<".", "5">>),
   fuel |-> Str(<<"2", ".">>), maintenance |-> Str(<<".", ".", "1">>), toll |-> Blank,
   other |-> Str(<<"0", ".", "2", "5">>), salary |-> Str(<<"3">>),
   kmsDriven |-> Str(<<"1", "2", ".", "5">>),
   loginTime |-> "09:30", logoutTime |-> "", notes |-> "late"]

ReportFormInputs == {ScenarioForm, OddForm}

FormDates == {Date(2024, 3, 15)}

EditDates == {Date(2024, 3, 31)}

\* what is typed into the edit dialog: <<value, category, field>>
EditInputs ==
  {<<Str(<<"7">>), "income", "local">>,
   <<Str(<<"1", ",", "5", "a">>), "salary", "">>,
   <<Str(<<"1", "2", "a">>), "logistics", "kmsDriven">>}

Pwd4 == <<"t", "a", "x", "i">>
Pwd3 == <<"c", "a", "b">>
PasswordInputs == {Pwd3, Pwd4}
LoginPasswords == {Chars("admin"), Pwd4}

SeedReports ==
  << newReport(MOCK_DRIVERS[1], Date(2024, 3, 1), ScenarioForm, 101, 0),
     newReport(MOCK_DRIVERS[2], Date(2024, 3, 2), OddForm, 102, 0) >>

NoEvent == [kind |-> "none"]

NoMessage == [text |-> "", type |-> ""]

AdminUser == [id |-> 0, name |-> "Administrator", role |-> "ADMIN"]

\* a storageService call in flight.  pc: "sent" while the request of the try
\* branch is out, "fbSent" while the getDrivers/getReports of the catch
\* branch is.  then: what the caller does with the result.  by, form, wrote
\* and own record which handler made the call, from which form, which write
\* the handler issued just before it, and whether the try branch failed.
\* An event also tells how the read of a catch branch went (nested "ok" or
\* "fail"), or that the try branch failed on a reply without a row ("norow").
Call(op, arg, then, by) ==
  [op |-> op, arg |-> arg, pc |-> "sent", then |-> then, by |-> by,
   pin |-> <<>>, form |-> Null, wrote |-> Null, own |-> "ok"]

Wrote(op, arg) == [op |-> op, arg |-> arg]

RemoveAt(q, i) == SubSeq(q, 1, i - 1) \o SubSeq(q, i + 1, Len(q))

Table(op) ==
  IF op \in {"getDrivers", "saveDriver", "deleteDriver"} THEN "drivers"
  ELSE IF op \in {"getReports", "saveReport", "deleteReport"} THEN "reports"
  ELSE "settings"

IsRead(op) == op \in {"getDrivers", "getReports", "getAdminPassword"}

AppInit ==
  /\ rDrivers = MOCK_DRIVERS
  /\ rReports = MapSeq(rowOfReport, SeedReports)
  /\ rAdminPwd = Null
  /\ lsDrivers = Null
  /\ lsReports = Null
  /\ lsAdminPwd = Null
  /\ user = Null
  /\ drivers = <<>>
  /\ reports = <<>>
  /\ currentView = "dashboard"
  /\ isLoading = TRUE
  /\ initPending = [drivers |-> Null, reports |-> Null]
  /\ error = ""
  /\ editingReport = Null
  /\ nKeys = 0
  /\ pwdMessage = NoMessage
  /\ pwdTimers = 0
  /\ calls = << Call("getDrivers", Null, "init", "initData"),
                Call("getReports", Null, "init", "initData") >>
  /\ nOps = 0
  /\ nextId = 3
  /\ ev = NoEvent

Init ==
  /\ AppInit
  /\ ParseIdle
  /\ FilterIdle

\* which dashboard is mounted, if any: renderContent
Mounted(u, view) ==
  IF u = Null THEN "Login"
  ELSE IF u.role = "DRIVER"
    THEN (IF view = "new-report" THEN "ReportForm" ELSE "DriverDashboard")
  ELSE IF view = "management" THEN "AdminManagement" ELSE "AdminDashboard"

\* what App puts on the screen.  renderContent looks the DRIVER user up in
\* drivers: without the record the report form gives way to an error line,
\* and DriverDashboard, handed undefined, throws on driver.id while rendering
Shown ==
  IF isLoading THEN "Loading"
  ELSE IF user = Null THEN "Login"
  ELSE IF user.role = "DRIVER" /\ FindIndex(drivers, user.id) = 0
    THEN (IF currentView = "new-report" THEN "Error loading driver data"
          ELSE "TypeError")
  ELSE Mounted(user, currentView)

\* a dashboard's state lives as long as that dashboard stays mounted
KeepIfMounted(u2, view2) ==
  IF /\ Mounted(user, currentView) = Mounted(u2, view2)
     /\ Mounted(u2, view2) \in {"DriverDashboard", "AdminDashboard"}
  THEN editingReport ELSE Null

\* a load that waits until the list of reports has a row
initSettledNeedsRows(ip) ==
  ip.drivers # Null /\ ip.reports # Null /\ ip.reports.v # <<>>

\* await Promise.all([getDrivers(), getReports()]) resumes initData once
\* both have resolved
initSettled(ip) == ip.drivers # Null /\ ip.reports # Null

\* what runs when call i resolves with result: the rest of the async
\* function that awaited it
Finish(i, c, result, nested) ==
  LET rest == RemoveAt(calls, i)
  IN
  /\ ev' = [kind |-> "done", op |-> c.op, arg |-> c.arg, by |-> c.by,
            pin |-> c.pin, form |-> c.form, wrote |-> c.wrote, own |-> c.own,
            nested |-> nested, result |-> result]
  /\ IF c.then = "init" THEN
       \* initData: await Promise.all([getDrivers(), getReports()])
       LET key == IF c.op = "getDrivers" THEN "drivers" ELSE "reports"
           ip  == [initPending EXCEPT ![key] = Some(result)]
       IN  /\ calls' = rest
           /\ IF initSettled(ip)
                THEN /\ drivers' = ip.drivers.v
                     /\ reports' = ip.reports.v
                     /\ isLoading' = FALSE
                     /\ initPending' = [drivers |-> Null, reports |-> Null]
                ELSE /\ initPending' = ip
                     /\ UNCHANGED <<drivers, reports, isLoading>>
           /\ UNCHANGED <<user, currentView, error, editingReport>>
     ELSE IF c.then = "setDrivers" THEN
       \* refreshDrivers
       /\ calls' = rest
       /\ drivers' = result
       /\ UNCHANGED <<user, reports, currentView, isLoading, initPending, error,
                      editingReport>>
     ELSE IF c.then = "setReports" THEN
       \* refreshReports
       /\ calls' = rest
       /\ reports' = result
       /\ UNCHANGED <<user, drivers, currentView, isLoading, initPending, error,
                      editingReport>>
     ELSE IF c.then = "submitSaved" THEN
       \* handleSubmitReport after await saveReport: await refreshReports()
       /\ calls' = Append(rest, [Call("getReports", Null, "submitRefreshed", c.by)
                                   EXCEPT !.form = c.form])
       /\ UNCHANGED <<user, drivers, reports, currentView, isLoading, initPending,
                      error, editingReport>>
     ELSE IF c.then = "submitRefreshed" THEN
       \* handleSubmitReport after await refreshReports
       /\ calls' = rest
       /\ reports' = result
       /\ currentView' = "dashboard"
       /\ editingReport' = KeepIfMounted(user, "dashboard")
       /\ UNCHANGED <<user, drivers, isLoading, initPending, error>>
     ELSE IF c.then = "login" THEN
       \* Login.handleLogin after await getAdminPassword, App.handleLogin
       /\ calls' = rest
       /\ IF c.pin = result
            THEN /\ user' = AdminUser
                 /\ currentView' = "dashboard"
                 /\ editingReport' = KeepIfMounted(AdminUser, "dashboard")
                 /\ UNCHANGED error
            ELSE /\ error' = "Invalid Admin Password."
                 /\ UNCHANGED <<user, currentView, editingReport>>
       /\ UNCHANGED <<drivers, reports, isLoading, initPending>>
     ELSE
       \* nobody awaited the call
       /\ calls' = rest
       /\ UNCHANGED <<user, drivers, reports, currentView, isLoading, initPending,
                      error, editingReport>>

\* the catch branch with a cascading deleteDriver: the driver's reports go too
LocalWriteCascade(c, list) ==
  IF c.op = "saveDriver"
    THEN lsDrivers' = Some(put(list, c.arg)) /\ UNCHANGED <<lsReports, lsAdminPwd>>
  ELSE IF c.op = "deleteDriver"
    THEN /\ lsDrivers' = Some(without(list, c.arg))
         /\ lsReports' = Some(IF lsReports = Null THEN <<>>
                              ELSE SelectSeq(lsReports.v,
                                             LAMBDA r : r.driverId # c.arg))
         /\ UNCHANGED lsAdminPwd
  ELSE IF c.op = "saveReport"
    THEN /\ lsReports' = Some(MapSeq(jsonReport, put(list, c.arg)))
         /\ UNCHANGED <<lsDrivers, lsAdminPwd>>
  ELSE /\ lsReports' = Some(MapSeq(jsonReport, without(list, c.arg)))
       /\ UNCHANGED <<lsDrivers, lsAdminPwd>>

\* the catch branch of a save or delete, once its own getDrivers/getReports
\* has returned list
LocalWrite(c, list) ==
  IF c.op = "saveDriver"
    THEN lsDrivers' = Some(put(list, c.arg)) /\ UNCHANGED <<lsReports, lsAdminPwd>>
  ELSE IF c.op = "deleteDriver"
    THEN lsDrivers' = Some(without(list, c.arg)) /\ UNCHANGED <<lsReports, lsAdminPwd>>
  ELSE IF c.op = "saveReport"
    THEN /\ lsReports' = Some(MapSeq(jsonReport, put(list, c.arg)))
         /\ UNCHANGED <<lsDrivers, lsAdminPwd>>
  ELSE /\ lsReports' = Some(MapSeq(jsonReport, without(list, c.arg)))
       /\ UNCHANGED <<lsDrivers, lsAdminPwd>>

\* the table service carries out the request of call i and its reply
\* resumes the caller: the try branch runs to its end, or, for the
\* getDrivers/getReports called by a catch branch, the catch branch does
RemoteOk(i) ==
  LET c  == calls[i]
      op == IF c.pc = "fbSent"
              THEN (IF Table(c.op) = "drivers" THEN "getDrivers" ELSE "getReports")
              ELSE c.op
      result == IF op = "getDrivers" THEN MapSeq(driverOfRow, rDrivers)
                ELSE IF op = "getReports" THEN MapSeq(reportOfRow, rReports)
                ELSE IF op = "getAdminPassword" THEN adminPwdOfReply(rAdminPwd)
                ELSE Null
  IN
  /\ rDrivers' = IF op = "saveDriver" THEN put(rDrivers, rowOfDriver(c.arg))
                 ELSE IF op = "deleteDriver" THEN without(rDrivers, c.arg)
                 ELSE rDrivers
  /\ rReports' = IF op = "saveReport" THEN put(rReports, rowOfReport(c.arg))
                 ELSE IF op = "deleteReport" THEN without(rReports, c.arg)
                 ELSE rReports
  /\ rAdminPwd' = IF op = "setAdminPassword" THEN Some(c.arg) ELSE rAdminPwd
  /\ IF c.pc = "sent" /\ op = "getAdminPassword" /\ rAdminPwd = Null
       THEN \* .single() on no row: the reply carries an error, the catch branch runs
            /\ Finish(i, [c EXCEPT !.own = "fail"],
                      getAdminPasswordLocal(lsAdminPwd), "norow")
            /\ UNCHANGED localVars
     ELSE IF c.pc = "sent"
       THEN /\ Finish(i, c, result, "none")
            /\ UNCHANGED localVars
       ELSE /\ LocalWrite(c, result)
            /\ Finish(i, c, Null, "ok")
  /\ UNCHANGED <<nKeys, pwdMessage, pwdTimers, nOps, nextId, harnessVars>>

\* the request of call i fails: the catch branch runs
RemoteFail(i) ==
  LET c == [calls[i] EXCEPT !.own = IF calls[i].pc = "sent" THEN "fail" ELSE @]
  IN
  /\ IF c.pc = "fbSent" THEN
       \* the getDrivers/getReports called by the catch branch fails as well
       /\ LocalWrite(c, IF Table(c.op) = "drivers" THEN getDriversLocal(lsDrivers).list
                        ELSE getReportsLocal(lsReports))
       /\ Finish(i, c, Null, "fail")
     ELSE IF c.op = "getDrivers" THEN
       /\ lsDrivers' = getDriversLocal(lsDrivers).ls
       /\ UNCHANGED <<lsReports, lsAdminPwd>>
       /\ Finish(i, c, getDriversLocal(lsDrivers).list, "none")
     ELSE IF c.op = "getReports" THEN
       /\ UNCHANGED localVars
       /\ Finish(i, c, getReportsLocal(lsReports), "none")
     ELSE IF c.op = "getAdminPassword" THEN
       /\ UNCHANGED localVars
       /\ Finish(i, c, getAdminPasswordLocal(lsAdminPwd), "none")
     ELSE IF c.op = "setAdminPassword" THEN
       /\ lsAdminPwd' = Some(c.arg)
       /\ UNCHANGED <<lsDrivers, lsReports>>
       /\ Finish(i, c, Null, "none")
     ELSE
       \* saveDriver, deleteDriver, saveReport, deleteReport: await getX()
       /\ calls' = [calls EXCEPT ![i] = [c EXCEPT !.pc = "fbSent"]]
       /\ ev' = NoEvent
       /\ UNCHANGED <<localVars, appStateVars, editingReport>>
  /\ UNCHANGED <<remoteVars, nKeys, pwdMessage, pwdTimers, nOps, nextId, harnessVars>>

(* The handlers.  The screen is drawn only when isLoading is false. *)

Handler(name, ok) == [kind |-> "user", name |-> name, ok |-> ok]

DriverPins == {"1234", "5678"}

\* what a driver login attempt was made with
LoginAttempt(selectedDriverId, pin) ==
  [kind |-> "login", selected |-> selectedDriverId, pin |-> pin]

\* the driver login that does not compare the PIN
LoginDriverAnyPin(selectedDriverId, pin) ==
  LET index  == FindIndex(drivers, selectedDriverId)
      driver == drivers[index]
  IN
  /\ ~isLoading /\ user = Null
  /\ nOps < MaxOps
  /\ ev' = LoginAttempt(selectedDriverId, pin)
  /\ IF index > 0
       THEN /\ user' = [id |-> driver.id, name |-> driver.name, role |-> "DRIVER"]
            /\ currentView' = "dashboard"
            /\ error' = ""
            /\ nOps' = nOps + 1
       ELSE /\ error' = "Invalid Driver PIN."
            /\ UNCHANGED <<user, currentView, nOps>>
  /\ UNCHANGED <<remoteVars, localVars, drivers, reports, isLoading, initPending,
                 dialogVars, calls, nextId, harnessVars>>

\* Login.handleLogin, driver role, and App.handleLogin; selectedDriverId is
\* 0 while no driver is selected
LoginDriver(selectedDriverId, pin) ==
  LET index  == FindIndex(drivers, selectedDriverId)
      driver == drivers[index]
  IN
  /\ ~isLoading /\ user = Null
  /\ nOps < MaxOps
  /\ ev' = LoginAttempt(selectedDriverId, pin)
  /\ IF index > 0 /\ driver.pin = pin
       THEN /\ user' = [id |-> driver.id, name |-> driver.name, role |-> "DRIVER"]
            /\ currentView' = "dashboard"
            /\ error' = ""
            /\ nOps' = nOps + 1
       ELSE /\ error' = "Invalid Driver PIN."
            /\ UNCHANGED <<user, currentView, nOps>>
  /\ UNCHANGED <<remoteVars, localVars, drivers, reports, isLoading, initPending,
                 dialogVars, calls, nextId, harnessVars>>

\* Login.handleLogin, admin role, up to await getAdminPassword()
LoginAdmin(pin) ==
  /\ ~isLoading /\ user = Null
  /\ nOps < MaxOps /\ Len(calls) < MaxInFlight
  /\ nOps' = nOps + 1
  /\ error' = ""
  /\ calls' = Append(calls, [Call("getAdminPassword", Null, "login", "LoginAdmin")
                               EXCEPT !.pin = pin])
  /\ ev' = NoEvent
  /\ UNCHANGED <<remoteVars, localVars, user, drivers, reports, currentView, isLoading,
                 initPending, dialogVars, nextId, harnessVars>>

\* App.handleLogout
Logout ==
  /\ ~isLoading /\ user # Null
  /\ Shown # "TypeError"
  /\ user' = Null
  /\ currentView' = "login"
  /\ error' = ""
  /\ editingReport' = Null
  /\ nKeys' = 0
  /\ pwdMessage' = NoMessage
  /\ ev' = NoEvent
  /\ UNCHANGED <<remoteVars, localVars, drivers, reports, isLoading, initPending,
                 pwdTimers, calls, nOps, nextId, harnessVars>>

\* the NavItems Layout offers to the role
Views(role) ==
  IF role = "DRIVER" THEN {"dashboard", "new-report"}
  ELSE {"dashboard", "reports", "management"}

\* Layout NavItem onClick: setCurrentView(view); also ReportForm onCancel
SetView(view) ==
  /\ ~isLoading /\ user # Null
  /\ Shown # "TypeError"
  /\ view \in Views(user.role)
  /\ view # currentView
  /\ currentView' = view
  /\ editingReport' = KeepIfMounted(user, view)
  /\ nKeys' = IF KeepIfMounted(user, view) = Null THEN 0 ELSE nKeys
  /\ pwdMessage' = IF Mounted(user, view) = "AdminManagement" THEN pwdMessage
                   ELSE NoMessage
  /\ ev' = NoEvent
  /\ UNCHANGED <<remoteVars, localVars, user, drivers, reports, isLoading, initPending,
                 error, pwdTimers, calls, nOps, nextId, harnessVars>>

\* ReportForm.handleSubmit and App.handleSubmitReport up to await saveReport
SubmitReport(f, date) ==
  /\ ~isLoading /\ user # Null
  /\ Mounted(user, currentView) = "ReportForm"
  /\ FindIndex(drivers, user.id) > 0
  /\ nOps < MaxOps /\ Len(calls) < MaxInFlight
  /\ LET driver == drivers[FindIndex(drivers, user.id)]
         report == newReport(driver, date, f, nextId, nOps + 1)
     IN  calls' = Append(calls, [Call("saveReport", report, "submitSaved", "submit")
                                   EXCEPT !.form = f])
  /\ nextId' = nextId + 1
  /\ nOps' = nOps + 1
  /\ ev' = NoEvent
  /\ UNCHANGED <<remoteVars, localVars, appStateVars, dialogVars, harnessVars>>

DashboardMounted ==
  /\ ~isLoading /\ user # Null
  /\ Shown \in {"DriverDashboard", "AdminDashboard"}

\* the rows a dashboard lists when its date filter is "all"
Listed ==
  IF user.role = "DRIVER" THEN SelectSeq(reports, LAMBDA r : r.driverId = user.id)
  ELSE reports

\* the edit button of a row: setEditingReport(report)
OpenEdit(k) ==
  /\ DashboardMounted
  /\ k \in 1..Len(Listed)
  /\ editingReport = Null
  /\ editingReport' = Listed[k]
  /\ nKeys' = 0
  /\ ev' = NoEvent
  /\ UNCHANGED <<remoteVars, localVars, appStateVars, pwdMessage, pwdTimers, calls,
                 nOps, nextId, harnessVars>>

\* the X and Cancel buttons of the dialog: setEditingReport(null)
CloseEdit ==
  /\ DashboardMounted
  /\ editingReport # Null
  /\ editingReport' = Null
  /\ nKeys' = 0
  /\ ev' = NoEvent
  /\ UNCHANGED <<remoteVars, localVars, appStateVars, pwdMessage, pwdTimers, calls,
                 nOps, nextId, harnessVars>>

MaxKeys == 1

\* handleEditValChange
EditVal(val, category, field) ==
  /\ DashboardMounted
  /\ editingReport # Null
  /\ nKeys < MaxKeys
  /\ editingReport' = editValChange(editingReport, val, category, field)
  /\ nKeys' = nKeys + 1
  /\ ev' = NoEvent
  /\ UNCHANGED <<remoteVars, localVars, appStateVars, pwdMessage, pwdTimers, calls,
                 nOps, nextId, harnessVars>>

\* the date input of the dialog: setEditingReport({...editingReport, date})
EditDate(date) ==
  /\ DashboardMounted
  /\ editingReport # Null
  /\ nKeys < MaxKeys
  /\ editingReport' = [editingReport EXCEPT !.date = date]
  /\ nKeys' = nKeys + 1
  /\ ev' = NoEvent
  /\ UNCHANGED <<remoteVars, localVars, appStateVars, pwdMessage, pwdTimers, calls,
                 nOps, nextId, harnessVars>>

\* handleUpdateReport of the mounted dashboard
UpdateReport ==
  /\ DashboardMounted
  /\ editingReport # Null
  /\ nOps < MaxOps /\ Len(calls) + 2 <= MaxInFlight
  /\ calls' = calls \o
       << Call("saveReport", updated(editingReport), "none", "edit"),
          [Call("getReports", Null, "setReports", "edit")
             EXCEPT !.wrote = Wrote("saveReport", updated(editingReport))] >>
  /\ editingReport' = Null
  /\ nKeys' = 0
  /\ nOps' = nOps + 1
  /\ ev' = NoEvent
  /\ UNCHANGED <<remoteVars, localVars, appStateVars, pwdMessage, pwdTimers, nextId, harnessVars>>

\* handleDeleteReport without the window.confirm test
DeleteReportUnconfirmed(id, confirmed) ==
  /\ DashboardMounted
  /\ id \in (IF editingReport = Null THEN Ids(Listed) ELSE {editingReport.id})
  /\ nOps < MaxOps /\ Len(calls) + 2 <= MaxInFlight
  /\ calls' = calls \o
       << Call("deleteReport", id, "none", "delete"),
          [Call("getReports", Null, "setReports", "delete")
             EXCEPT !.wrote = Wrote("deleteReport", id)] >>
  /\ nOps' = nOps + 1
  /\ IF editingReport # Null /\ editingReport.id = id
       THEN editingReport' = Null /\ nKeys' = 0
       ELSE UNCHANGED <<editingReport, nKeys>>
  /\ ev' = Handler("DeleteReport", confirmed)
  /\ UNCHANGED <<remoteVars, localVars, appStateVars, pwdMessage, pwdTimers, nextId, harnessVars>>

\* AdminDashboard.handleDeleteReport, DriverDashboard.handleDeleteReport;
\* confirmed is window.confirm
DeleteReport(id, confirmed) ==
  /\ DashboardMounted
  /\ id \in (IF editingReport = Null THEN Ids(Listed) ELSE {editingReport.id})
  /\ confirmed => (nOps < MaxOps /\ Len(calls) + 2 <= MaxInFlight)
  /\ IF confirmed
       THEN /\ calls' = calls \o
                 << Call("deleteReport", id, "none", "delete"),
                    [Call("getReports", Null, "setReports", "delete")
                       EXCEPT !.wrote = Wrote("deleteReport", id)] >>
            /\ nOps' = nOps + 1
            /\ IF editingReport # Null /\ editingReport.id = id
                 THEN editingReport' = Null /\ nKeys' = 0
                 ELSE UNCHANGED <<editingReport, nKeys>>
       ELSE UNCHANGED <<calls, nOps, editingReport, nKeys>>
  /\ ev' = Handler("DeleteReport", confirmed)
  /\ UNCHANGED <<remoteVars, localVars, appStateVars, pwdMessage, pwdTimers, nextId, harnessVars>>

ManagementMounted ==
  /\ ~isLoading /\ user # Null
  /\ Mounted(user, currentView) = "AdminManagement"

\* what the driver form can hold: a listed driver with the PIN retyped
\* (handleEditDriver), or a new entry (handleAddDriver); id 0 is no id
DriverForms ==
  {[drivers[k] EXCEPT !.pin = "4321"] : k \in 1..Len(drivers)}
    \cup {[id |-> 0, name |-> n, vehicle |-> "", pin |-> "4321"] : n \in {"", "Anil"}}

\* AdminManagement.handleSaveDriver
SaveDriver(currentDriver) ==
  /\ ManagementMounted
  /\ currentDriver \in DriverForms
  /\ nOps < MaxOps /\ Len(calls) + 2 <= MaxInFlight
  /\ IF currentDriver.name = "" \/ currentDriver.pin = ""
       THEN /\ ev' = Handler("SaveDriver", FALSE)
            /\ UNCHANGED <<calls, nOps, nextId>>
       ELSE LET driverToSave ==
                  [id |-> IF currentDriver.id # 0 THEN currentDriver.id ELSE nextId,
                   name |-> currentDriver.name,
                   vehicle |-> currentDriver.vehicle,
                   pin |-> currentDriver.pin]
            IN  /\ calls' = calls \o
                     << Call("saveDriver", driverToSave, "none", "saveDriver"),
                        [Call("getDrivers", Null, "setDrivers", "saveDriver")
                           EXCEPT !.wrote = Wrote("saveDriver", driverToSave)] >>
                /\ nextId' = IF currentDriver.id # 0 THEN nextId ELSE nextId + 1
                /\ nOps' = nOps + 1
                /\ ev' = NoEvent
  /\ UNCHANGED <<remoteVars, localVars, appStateVars, dialogVars, harnessVars>>

\* AdminManagement.handleDeleteDriver; confirmed is window.confirm
DeleteDriver(id, confirmed) ==
  /\ ManagementMounted
  /\ id \in Ids(drivers)
  /\ confirmed => (nOps < MaxOps /\ Len(calls) + 2 <= MaxInFlight)
  /\ IF confirmed
       THEN /\ calls' = calls \o
                 << Call("deleteDriver", id, "none", "deleteDriver"),
                    [Call("getDrivers", Null, "setDrivers", "deleteDriver")
                       EXCEPT !.wrote = Wrote("deleteDriver", id)] >>
            /\ nOps' = nOps + 1
       ELSE UNCHANGED <<calls, nOps>>
  /\ ev' = Handler("DeleteDriver", confirmed)
  /\ UNCHANGED <<remoteVars, localVars, appStateVars, dialogVars, nextId, harnessVars>>

\* the password form without the test of the length
PasswordChangeAnyLength(newAdminPassword, confirmAdminPassword) ==
  /\ ManagementMounted
  /\ nOps < MaxOps /\ Len(calls) < MaxInFlight
  /\ IF newAdminPassword # confirmAdminPassword
       THEN /\ pwdMessage' = [text |-> "Passwords do not match", type |-> "error"]
            /\ ev' = Handler("PasswordChange", FALSE)
            /\ UNCHANGED <<calls, nOps, pwdTimers>>
     ELSE /\ calls' = Append(calls, Call("setAdminPassword", newAdminPassword, "none",
                                         "passwordChange"))
          /\ pwdMessage' = [text |-> "Admin password updated successfully",
                            type |-> "success"]
          /\ pwdTimers' = pwdTimers + 1
          /\ nOps' = nOps + 1
          /\ ev' = NoEvent
  /\ UNCHANGED <<remoteVars, localVars, appStateVars, editingReport, nKeys, nextId, harnessVars>>

\* AdminManagement.handlePasswordChange
PasswordChange(newAdminPassword, confirmAdminPassword) ==
  /\ ManagementMounted
  /\ nOps < MaxOps /\ Len(calls) < MaxInFlight
  /\ IF newAdminPassword # confirmAdminPassword
       THEN /\ pwdMessage' = [text |-> "Passwords do not match", type |-> "error"]
            /\ ev' = Handler("PasswordChange", FALSE)
            /\ UNCHANGED <<calls, nOps, pwdTimers>>
     ELSE IF Len(newAdminPassword) < 4
       THEN /\ pwdMessage' = [text |-> "Password must be at least 4 characters",
                              type |-> "error"]
            /\ ev' = Handler("PasswordChange", FALSE)
            /\ UNCHANGED <<calls, nOps, pwdTimers>>
     ELSE /\ calls' = Append(calls, Call("setAdminPassword", newAdminPassword, "none",
                                         "passwordChange"))
          /\ pwdMessage' = [text |-> "Admin password updated successfully",
                            type |-> "success"]
          /\ pwdTimers' = pwdTimers + 1
          /\ nOps' = nOps + 1
          /\ ev' = NoEvent
  /\ UNCHANGED <<remoteVars, localVars, appStateVars, editingReport, nKeys, nextId, harnessVars>>

\* setTimeout(() => setPwdMessage({ text: '', type: '' }), 3000)
PwdMessageTimeout ==
  /\ pwdTimers > 0
  /\ pwdTimers' = pwdTimers - 1
  /\ pwdMessage' = NoMessage
  /\ ev' = NoEvent
  /\ UNCHANGED <<remoteVars, localVars, appStateVars, editingReport, nKeys, calls,
                 nOps, nextId, harnessVars>>

Next ==
  \/ \E i \in 1..Len(calls) : RemoteOk(i)
  \/ \E i \in 1..Len(calls) : RemoteFail(i)
  \/ \E id \in Ids(drivers) \cup {0}, pin \in DriverPins : LoginDriver(id, pin)
  \/ \E pin \in LoginPasswords : LoginAdmin(pin)
  \/ Logout
  \/ \E view \in {"dashboard", "new-report", "reports", "management"} : SetView(view)
  \/ \E f \in ReportFormInputs, date \in FormDates : SubmitReport(f, date)
  \/ \E k \in 1..Len(reports) : OpenEdit(k)
  \/ CloseEdit
  \/ \E inp \in EditInputs : EditVal(inp[1], inp[2], inp[3])
  \/ \E date \in EditDates : EditDate(date)
  \/ UpdateReport
  \/ \E id \in Ids(reports) \cup (IF editingReport = Null THEN {}
                                     ELSE {editingReport.id}),
        confirmed \in BOOLEAN : DeleteReport(id, confirmed)
  \/ \E cd \in DriverForms : SaveDriver(cd)
  \/ \E id \in Ids(drivers), confirmed \in BOOLEAN : DeleteDriver(id, confirmed)
  \/ \E pw \in PasswordInputs, cf \in PasswordInputs : PasswordChange(pw, cf)
  \/ PwdMessageTimeout

Spec == Init /\ [][Next]_vars

----------------------------------------------------------------------------
(* Properties of the application *)

\* the money fields of a stored report, under the names of DailyReport
Money(id, income, expenses, totalIncome, totalExpenses, driverSalary, netProfit) ==
  [id |-> id, income |-> income, expenses |-> expenses, totalIncome |-> totalIncome,
   totalExpenses |-> totalExpenses, driverSalary |-> driverSalary,
   netProfit |-> netProfit]

\* every report the table service holds and every report tyc_reports holds
StoredReports ==
  {LET r == rReports[i]
   IN  Money(r.id, r.income, r.expenses, r.total_income, r.total_expenses,
             r.driver_salary, r.net_profit) : i \in 1..Len(rReports)}
    \cup (IF lsReports = Null THEN {}
          ELSE {LET r == lsReports.v[i]
                IN  Money(r.id, r.income, r.expenses, r.totalIncome, r.totalExpenses,
                          r.driverSalary, r.netProfit) : i \in 1..Len(lsReports.v)})

Contains(list, x) == \E k \in 1..Len(list) : list[k] = x

\* call op made by handler by has just completed
Done(op, by) == ev.kind = "done" /\ ev.op = op /\ ev.by = by

SeedProfits == {SeedReports[k].netProfit : k \in 1..Len(SeedReports)}

SeedExpenses == {SeedReports[k].totalExpenses : k \in 1..Len(SeedReports)}

\* C1: in every reachable state, every report held by the remote table or by
\* the local collection has netProfit = totalIncome - totalExpenses.
C1_NetProfit ==
  \A r \in StoredReports : r.netProfit = Sub(r.totalIncome, r.totalExpenses)

\* an edit that changed the profit has been written to the remote table
C1_Witness ==
  /\ Done("saveReport", "edit") /\ ev.own = "ok"
  /\ ev.arg.netProfit \notin SeedProfits
  /\ \E i \in 1..Len(rReports) :
       rReports[i].id = ev.arg.id /\ rReports[i].net_profit = ev.arg.netProfit

\* C2: every stored report has totalIncome = local + outstation + mixed and
\* totalExpenses = fuel + maintenance + toll + other + driverSalary, over the
\* breakdown stored with it (so an edit never keeps the totals it found).
C2_TotalsFromBreakdown ==
  \A r \in StoredReports :
    /\ r.totalIncome =
         Add(Add(r.income.local, r.income.outstation), r.income.mixed)
    /\ r.totalExpenses =
         Add(Add(Add(Add(r.expenses.fuel, r.expenses.maintenance), r.expenses.toll),
                 r.expenses.other), r.driverSalary)

\* an edit that changed the expenses total has been written to the local collection
C2_Witness ==
  /\ Done("saveReport", "edit") /\ ev.own = "fail"
  /\ ev.arg.totalExpenses \notin SeedExpenses
  /\ lsReports # Null /\ Contains(lsReports.v, jsonReport(ev.arg))

\* the submitted report as the store that took it holds it
SubmittedAsStored ==
  IF ev.own = "ok"
    THEN {LET r == rReports[i]
          IN  Money(r.id, r.income, r.expenses, r.total_income, r.total_expenses,
                    r.driver_salary, r.net_profit) :
            i \in {j \in 1..Len(rReports) : rReports[j].id = ev.arg.id}}
    ELSE {LET r == lsReports.v[i]
          IN  Money(r.id, r.income, r.expenses, r.totalIncome, r.totalExpenses,
                    r.driverSalary, r.netProfit) :
            i \in {j \in 1..Len(lsReports.v) : lsReports.v[j].id = ev.arg.id}}

\* C4: when the saveReport of a submission of the scenario form (500/0/0 in,
\* 100/0/0/0 out, salary 50) completes, the store holds that report once, with
\* totalIncome = 500, totalExpenses = 150 and netProfit = 350.
C4_Scenario ==
  (Done("saveReport", "submit") /\ ev.form = ScenarioForm) =>
    /\ Cardinality(SubmittedAsStored) = 1
    /\ \A r \in SubmittedAsStored :
         /\ r.totalIncome = Num(500)
         /\ r.totalExpenses = Num(150)
         /\ r.netProfit = Num(350)

\* the scenario report has reached the remote table
C4_Witness ==
  /\ Done("saveReport", "submit") /\ ev.form = ScenarioForm /\ ev.own = "ok"
  /\ \E i \in 1..Len(rReports) :
       rReports[i].id = ev.arg.id /\ rReports[i].total_income = Num(500)

\* list holds exactly one element with the id of d, and it is d
ExactlyOnce(list, d) ==
  /\ Cardinality({k \in 1..Len(list) : list[k].id = d.id}) = 1
  /\ Contains(list, d)

\* what a getDrivers() made now returns when its select succeeds
FetchRemote == MapSeq(driverOfRow, rDrivers)

\* what a getDrivers() made now returns when its select fails
FetchLocal == getDriversLocal(lsDrivers).list

SaveDriverDone == ev.kind = "done" /\ ev.op = "saveDriver"

\* C5, as stated: when saveDriver(d) completes, a getDrivers() that follows
\* returns a list holding d exactly once, whether the upsert succeeded or
\* failed and whether the select of the getDrivers succeeds or fails.
C5_AsStated ==
  SaveDriverDone =>
    /\ ExactlyOnce(FetchRemote, ev.arg)
    /\ ExactlyOnce(FetchLocal, ev.arg)

\* C5, amended: when saveDriver(d) completes, a getDrivers() that follows and
\* is served by the store the save wrote (the remote table after an upsert
\* that succeeded, the local collection after one that failed) returns a list
\* holding d exactly once.
C5_SameStore ==
  SaveDriverDone =>
    IF ev.own = "ok" THEN ExactlyOnce(FetchRemote, ev.arg)
    ELSE ExactlyOnce(FetchLocal, ev.arg)

\* a save whose upsert failed while the select of its catch branch succeeded:
\* the local collection holds d once, the remote table does not
C5_Witness ==
  /\ SaveDriverDone /\ ev.own = "fail" /\ ev.nested = "ok"
  /\ ExactlyOnce(FetchLocal, ev.arg)
  /\ ~ExactlyOnce(FetchRemote, ev.arg)

\* C6: when the remote request of a storageService operation fails, the
\* operation completes and has read from, or written to, the local store:
\* a failed save leaves the record in the local collection, a failed delete
\* leaves no record with that id, a failed setAdminPassword leaves the
\* password, and a failed get returns what the local store holds (the mock
\* drivers, no reports, "admin" when it holds nothing).
C6_Fallback ==
  (ev.kind = "done" /\ ev.own = "fail") =>
    CASE ev.op = "saveDriver" ->
           lsDrivers # Null /\ Contains(lsDrivers.v, ev.arg)
      [] ev.op = "deleteDriver" ->
           lsDrivers # Null /\ ev.arg \notin Ids(lsDrivers.v)
      [] ev.op = "saveReport" ->
           lsReports # Null /\ Contains(lsReports.v, jsonReport(ev.arg))
      [] ev.op = "deleteReport" ->
           lsReports # Null /\ ev.arg \notin Ids(lsReports.v)
      [] ev.op = "setAdminPassword" ->
           lsAdminPwd = Some(ev.arg)
      [] ev.op = "getDrivers" ->
           lsDrivers = Some(ev.result)
      [] ev.op = "getReports" ->
           ev.result = (IF lsReports = Null THEN <<>> ELSE lsReports.v)
      [] ev.op = "getAdminPassword" ->
           ev.result = (IF lsAdminPwd = Null \/ lsAdminPwd = Some(<<>>)
                          THEN Chars("admin") ELSE lsAdminPwd.v)

\* a delete whose remote request failed has removed the report from a local
\* collection that still holds another one
C6_Witness ==
  /\ ev.kind = "done" /\ ev.own = "fail" /\ ev.op = "deleteReport"
  /\ lsReports # Null /\ ev.arg \notin Ids(lsReports.v)
  /\ Len(lsReports.v) > 0
  /\ ev.arg \in Ids(rReports)

\* the handlers of the user actions (submit, edit, delete, driver save and delete)
UserActions == {"submit", "edit", "delete", "saveDriver", "deleteDriver"}

InFlightOf(bys) == {i \in 1..Len(calls) : calls[i].by \in bys}

\* C7, as stated: at no time are two persistence operations of the user
\* actions (submit, edit, delete and their refresh) in flight together.
C7_OneInFlight == Cardinality(InFlightOf(UserActions)) <= 1

\* the write a refresh follows is still in flight
WriteInFlight(w) ==
  \E i \in 1..Len(calls) : calls[i].op = w.op /\ calls[i].arg = w.arg

\* the in-memory list shows the write w
Shows(w) ==
  CASE w.op = "saveReport" ->
         \E k \in 1..Len(reports) :
           /\ reports[k].id = w.arg.id
           /\ reports[k].date = w.arg.date
           /\ reports[k].income = w.arg.income
           /\ reports[k].expenses = w.arg.expenses
           /\ reports[k].driverSalary = w.arg.driverSalary
    [] w.op = "deleteReport" -> w.arg \notin Ids(reports)
    [] w.op = "deleteDriver" -> w.arg \notin Ids(drivers)
    [] OTHER -> TRUE

\* C8, as stated: when the refresh of a saved edit or of a confirmed deletion
\* completes, the save or delete it follows has resolved and the in-memory
\* list holds the edited record, or no longer holds the deleted one.
C8_RefreshAfterWrite ==
  (/\ ev.kind = "done"
   /\ ev.by \in {"edit", "delete", "deleteDriver"}
   /\ ev.wrote # Null) =>
    /\ ~WriteInFlight(ev.wrote)
    /\ Shows(ev.wrote)

\* the step recorded in e was a login attempt
IsLoginAttempt(e) ==
  \/ e.kind = "login"
  \/ (e.kind = "done" /\ e.op = "getAdminPassword" /\ e.by = "LoginAdmin")

\* the attempt recorded in e was made with the PIN of the selected driver of
\* list, or with the password getAdminPassword returned
LoginMatches(e, list) ==
  \/ /\ e.kind = "login"
     /\ \E k \in 1..Len(list) : list[k].id = e.selected /\ list[k].pin = e.pin
  \/ /\ e.kind = "done" /\ e.op = "getAdminPassword" /\ e.by = "LoginAdmin"
     /\ e.pin = e.result

DeleteOps == {"deleteReport", "deleteDriver"}

DeleteCalls(cs) == {k \in 1..Len(cs) : cs[k].op \in DeleteOps}

DeleteHandler(e) ==
  e.kind = "user" /\ e.name \in {"DeleteReport", "DeleteDriver"}

\* C17: a delete call is issued only by a delete handler whose confirmation
\* prompt was accepted; a declined prompt issues no call and leaves the
\* remote store, the local store, the in-memory lists and the open edit
\* dialog as they were.
C17_DeleteOnlyConfirmed ==
  [][/\ Cardinality(DeleteCalls(calls')) > Cardinality(DeleteCalls(calls)) =>
          (DeleteHandler(ev') /\ ev'.ok)
     /\ (DeleteHandler(ev') /\ ~ev'.ok) =>
          /\ calls' = calls
          /\ UNCHANGED <<remoteVars, localVars>>
          /\ UNCHANGED <<drivers, reports, editingReport>>]_vars

\* a delete was declined while the edit dialog was open
C17_Witness ==
  /\ ev = Handler("DeleteReport", FALSE)
  /\ editingReport # Null
  /\ calls = <<>>
  /\ Len(reports) = Len(SeedReports)

\* a step of a confirmed driver deletion: the handler, the completion of
\* deleteDriver, the completion of the refresh that follows it
DeleteDriverStep(e) ==
  \/ e = Handler("DeleteDriver", TRUE)
  \/ /\ e.kind = "done"
     /\ \/ e.op = "deleteDriver"
        \/ e.op = "getDrivers" /\ e.by = "deleteDriver"

\* what the admin dashboard lists with both filters at "all" (the date
\* filter "all" reads neither the clock nor the time zone)
AdminAllView(list, now, tz) ==
  filteredReports(list, "all", "all", BlankDate, BlankDate, now, tz)

Orphans(list, ds) == {k \in 1..Len(list) : list[k].driverId \notin Ids(ds)}

\* C18: deleting a driver leaves the reports of both stores unchanged, and
\* the reports of a driver who is no longer listed are still shown by the
\* admin dashboard under the "all" driver filter.
C18_ReportsSurviveDriver ==
  [][DeleteDriverStep(ev') =>
       /\ UNCHANGED <<rReports, lsReports, reports>>
       /\ \A k \in Orphans(reports', drivers') :
            Contains(AdminAllView(reports', 0, 0), reports'[k])]_vars

\* driver 1 was deleted remotely, the refreshed list no longer has it, and
\* its seed report is still stored and still in memory
C18_Witness ==
  /\ Done("getDrivers", "deleteDriver")
  /\ 1 \notin Ids(drivers) /\ 1 \notin Ids(rDrivers)
  /\ \E k \in 1..Len(rReports) : rReports[k].driver_id = 1
  /\ Orphans(reports, drivers) # {}

\* the saveReport of an edit completes in this step
EditSaved(e) == e.kind = "done" /\ e.op = "saveReport" /\ e.by = "edit"

RowIdentity == {"id", "driver_id", "driver_name", "timestamp"}

\* after is before with exactly the record of new's id replaced by new,
\* and new has the identity fields of the record it replaces
ReplacedIn(before, after, new, identity) ==
  /\ Len(after) = Len(before)
  /\ Cardinality({k \in 1..Len(before) : before[k].id = new.id}) = 1
  /\ \A k \in 1..Len(before) :
       IF before[k].id = new.id
         THEN after[k] = new /\ \A f \in identity : new[f] = before[k][f]
         ELSE after[k] = before[k]

\* C20: the save of an edit, when its upsert is carried out, replaces
\* exactly the stored record with the edited report's id: that record keeps
\* id, driverId, driverName and timestamp, the number of stored reports is
\* unchanged and no other report is modified.
C20_ReplacesExactlyOne ==
  [][(EditSaved(ev') /\ ev'.own = "ok") =>
       ReplacedIn(rReports, rReports', rowOfReport(ev'.arg), RowIdentity)]_vars

----------------------------------------------------------------------------
(* Session harness: a dashboard once the data has loaded from the table   *)
(* service and a user has logged in                                       *)

SessionUsers ==
  {AdminUser, [id |-> MOCK_DRIVERS[1].id, name |-> MOCK_DRIVERS[1].name, role |-> "DRIVER"]}

SessionInit ==
  /\ rDrivers = MOCK_DRIVERS
  /\ rReports = MapSeq(rowOfReport, SeedReports)
  /\ rAdminPwd = Null
  /\ lsDrivers = Null
  /\ lsReports = Null
  /\ lsAdminPwd = Null
  /\ user \in SessionUsers
  /\ drivers = MapSeq(driverOfRow, rDrivers)
  /\ reports = MapSeq(reportOfRow, rReports)
  /\ currentView = "dashboard"
  /\ isLoading = FALSE
  /\ initPending = [drivers |-> Null, reports |-> Null]
  /\ error = ""
  /\ editingReport = Null
  /\ nKeys = 0
  /\ pwdMessage = NoMessage
  /\ pwdTimers = 0
  /\ calls = <<>>
  /\ nOps = 0
  /\ nextId = 3
  /\ ev = NoEvent
  /\ ParseIdle
  /\ FilterIdle

\* the dashboard's handlers on the listed reports, and the replies
SessionNext ==
  \/ \E i \in 1..Len(calls) : RemoteOk(i)
  \/ \E i \in 1..Len(calls) : RemoteFail(i)
  \/ \E k \in 1..Len(reports) : OpenEdit(k)
  \/ CloseEdit
  \/ \E inp \in EditInputs : EditVal(inp[1], inp[2], inp[3])
  \/ \E date \in EditDates : EditDate(date)
  \/ UpdateReport
  \/ \E id \in Ids(reports) \cup (IF editingReport = Null THEN {}
                                     ELSE {editingReport.id}),
        confirmed \in BOOLEAN : DeleteReport(id, confirmed)

SpecSession == SessionInit /\ [][SessionNext]_vars

----------------------------------------------------------------------------
(* Offline harness: the admin dashboard while every request to the table  *)
(* service fails; the local collection holds the reports of an earlier    *)
(* fallback and the list was loaded from it                               *)

OfflineInit ==
  /\ rDrivers = MOCK_DRIVERS
  /\ rReports = MapSeq(rowOfReport, SeedReports)
  /\ rAdminPwd = Null
  /\ lsDrivers = Some(MOCK_DRIVERS)
  /\ lsReports = Some(MapSeq(jsonReport, SeedReports))
  /\ lsAdminPwd = Null
  /\ user = AdminUser
  /\ drivers = lsDrivers.v
  /\ reports = lsReports.v
  /\ currentView = "dashboard"
  /\ isLoading = FALSE
  /\ initPending = [drivers |-> Null, reports |-> Null]
  /\ error = ""
  /\ editingReport = Null
  /\ nKeys = 0
  /\ pwdMessage = NoMessage
  /\ pwdTimers = 0
  /\ calls = <<>>
  /\ nOps = 0
  /\ nextId = 3
  /\ ev = NoEvent
  /\ ParseIdle
  /\ FilterIdle

\* the dashboard's handlers on the listed reports; every request fails
OfflineNext ==
  \/ \E i \in 1..Len(calls) : RemoteFail(i)
  \/ \E k \in 1..Len(reports) : OpenEdit(k)
  \/ CloseEdit
  \/ \E inp \in EditInputs : EditVal(inp[1], inp[2], inp[3])
  \/ \E date \in EditDates : EditDate(date)
  \/ UpdateReport
  \/ \E id \in Ids(reports) \cup (IF editingReport = Null THEN {}
                                     ELSE {editingReport.id}),
        confirmed \in BOOLEAN : DeleteReport(id, confirmed)

SpecOffline == OfflineInit /\ [][OfflineNext]_vars

\* the save of an edit completes in its catch branch, whose own read of the
\* reports failed as well
EditSavedOffline(e) == EditSaved(e) /\ e.own = "fail" /\ e.nested = "fail"

\* the reports the local collection holds
LocalReports == IF lsReports = Null THEN <<>> ELSE lsReports.v

\* C21: with the remote store failing, the save of an edit leaves its
\* record in the local collection and keeps every other record the
\* collection held, so after two edits of two different reports the
\* collection holds both updated records; nothing but a save or a delete
\* rewrites the collection.
C21_BothEditsKept ==
  [][/\ EditSavedOffline(ev') =>
          /\ lsReports' # Null
          /\ Contains(lsReports'.v, jsonReport(ev'.arg))
          /\ \A k \in 1..Len(LocalReports) :
               LocalReports[k].id # ev'.arg.id =>
                 Contains(lsReports'.v, LocalReports[k])
     /\ lsReports' # lsReports =>
          (ev'.kind = "done" /\ ev'.op \in {"saveReport", "deleteReport"})]_vars

\* two edits of the two seed reports have been saved, and the local
\* collection holds both updated records and neither original
C21_Witness ==
  /\ EditSavedOffline(ev)
  /\ nOps = 2
  /\ lsReports # Null /\ Len(lsReports.v) = 2
  /\ Ids(lsReports.v) = Ids(SeedReports)
  /\ \A k \in 1..2 : ~Contains(MapSeq(jsonReport, SeedReports), lsReports.v[k])

\* the drivers the local collection holds
LocalDrivers == IF lsDrivers = Null THEN <<>> ELSE lsDrivers.v

\* every record of before whose id is not id is in after, as it was
OthersKept(before, after, id) ==
  \A k \in 1..Len(before) : before[k].id # id => Contains(after, before[k])

\* C22: a saveDriver or saveReport that completes in its catch branch
\* leaves every other record the local collection held in the collection,
\* unaltered, whether the read made by the catch branch fails or succeeds.
C22_FallbackKeepsOthers ==
  [][(ev'.kind = "done" /\ ev'.own = "fail") =>
       /\ ev'.op = "saveReport" =>
            (lsReports' # Null /\ OthersKept(LocalReports, lsReports'.v, ev'.arg.id))
       /\ ev'.op = "saveDriver" =>
            (lsDrivers' # Null /\ OthersKept(LocalDrivers, lsDrivers'.v, ev'.arg.id))]_vars

\* the amounts of a stored record, under the field names of either store
AmountsOfReport(r) ==
  {r.income.local, r.income.outstation, r.income.mixed,
   r.expenses.fuel, r.expenses.maintenance, r.expenses.toll, r.expenses.other,
   r.kmsDriven, r.driverSalary, r.totalIncome, r.totalExpenses, r.netProfit}

AmountsOfRow(r) ==
  {r.income.local, r.income.outstation, r.income.mixed,
   r.expenses.fuel, r.expenses.maintenance, r.expenses.toll, r.expenses.other,
   r.kms_driven, r.driver_salary, r.total_income, r.total_expenses, r.net_profit}

\* the amounts held by the two stores of reports
StoredAmounts ==
  UNION {AmountsOfRow(rReports[k]) : k \in 1..Len(rReports)}
    \cup UNION {AmountsOfReport(LocalReports[k]) : k \in 1..Len(LocalReports)}

\* C25: after any sequence of creates and edits every stored report holds
\* a number in kmsDriven, driverSalary, totalIncome, totalExpenses, netProfit
\* and in every income and expense field; no text typed into an edit dialog
\* reaches the remote table or the local collection.
C25_StoredAmountsAreNumbers ==
  \A v \in StoredAmounts : v.t # "str"

\* the setAdminPassword calls that have not resolved yet
PasswordWrites == SelectSeq(calls, LAMBDA c : c.op = "setAdminPassword")

\* C28: handlePasswordChange starts a write of the new admin password only
\* when the two entries are equal and the new one has at least 4 characters;
\* otherwise it sets an error message and starts no write, and the stored
\* credential, remote and local, stays as it was.  The stored credential
\* changes only when such a write completes.
C28_PasswordWrittenOnlyWhenValid ==
  [][/\ \A pw \in PasswordInputs, cf \in PasswordInputs :
          PasswordChange(pw, cf) =>
            IF pw = cf /\ Len(pw) >= 4
              THEN /\ Len(PasswordWrites') = Len(PasswordWrites) + 1
                   /\ PasswordWrites'[Len(PasswordWrites')].arg = pw
              ELSE /\ pwdMessage'.type = "error"
                   /\ calls' = calls
                   /\ rAdminPwd' = rAdminPwd
                   /\ lsAdminPwd' = lsAdminPwd
     /\ (rAdminPwd' # rAdminPwd \/ lsAdminPwd' # lsAdminPwd) =>
          /\ ev'.kind = "done" /\ ev'.op = "setAdminPassword"
          /\ Len(ev'.arg) >= 4
          /\ IF ev'.own = "ok" THEN rAdminPwd' = Some(ev'.arg)
             ELSE lsAdminPwd' = Some(ev'.arg)]_vars

\* a new password of three characters, entered twice, has been refused and
\* nothing was written
C28_Witness ==
  /\ ev = Handler("PasswordChange", FALSE)
  /\ pwdMessage = [text |-> "Password must be at least 4 characters", type |-> "error"]
  /\ PasswordWrites = <<>>
  /\ rAdminPwd = Null /\ lsAdminPwd = Null

\* every request is answered in the end, with rows or with an error
SpecAnswered ==
  Init /\ [][Next]_vars
       /\ WF_vars(\E i \in 1..Len(calls) : RemoteOk(i) \/ RemoteFail(i))

\* C29: the initial load finishes: when every pending request is answered
\* in the end, isLoading becomes false and the login screen is shown,
\* whether the reads of drivers and reports succeed or fail; and while
\* isLoading is true the login screen is not shown and no login is taken.
C29_LoadFinishes ==
  /\ <>(~isLoading /\ Shown = "Login")
  /\ [](isLoading => Shown # "Login")
  /\ [][isLoading => (user' = Null /\ error' = error /\ nOps' = nOps)]_vars

\* the load has finished on the login screen although both reads failed
C29_Witness ==
  /\ ~isLoading /\ Shown = "Login"
  /\ ev.kind = "done" /\ ev.by = "initData" /\ ev.own = "fail"
  /\ lsDrivers = Some(MOCK_DRIVERS) /\ reports = <<>>

----------------------------------------------------------------------------
(* Role harness: the administrator on the management view with the data   *)
(* loaded; drivers are deleted, sessions end and begin, views are chosen   *)

RoleInit ==
  /\ rDrivers = MOCK_DRIVERS
  /\ rReports = MapSeq(rowOfReport, SeedReports)
  /\ rAdminPwd = Null
  /\ lsDrivers = Null
  /\ lsReports = Null
  /\ lsAdminPwd = Null
  /\ user = AdminUser
  /\ drivers = MapSeq(driverOfRow, rDrivers)
  /\ reports = MapSeq(reportOfRow, rReports)
  /\ currentView = "management"
  /\ isLoading = FALSE
  /\ initPending = [drivers |-> Null, reports |-> Null]
  /\ error = ""
  /\ editingReport = Null
  /\ nKeys = 0
  /\ pwdMessage = NoMessage
  /\ pwdTimers = 0
  /\ calls = <<>>
  /\ nOps = 0
  /\ nextId = 3
  /\ ev = NoEvent
  /\ ParseIdle
  /\ FilterIdle

RoleNext ==
  \/ \E i \in 1..Len(calls) : RemoteOk(i)
  \/ \E i \in 1..Len(calls) : RemoteFail(i)
  \/ \E id \in Ids(drivers) \cup {0}, pin \in DriverPins : LoginDriver(id, pin)
  \/ \E pin \in LoginPasswords : LoginAdmin(pin)
  \/ Logout
  \/ \E view \in {"dashboard", "new-report", "reports", "management"} : SetView(view)
  \/ \E id \in Ids(drivers), confirmed \in BOOLEAN : DeleteDriver(id, confirmed)

SpecRole == RoleInit /\ [][RoleNext]_vars

\* the screen belongs to the role of the session
RoleMatches ==
  /\ (user = Null /\ ~isLoading) => Shown = "Login"
  /\ (user # Null /\ user.role = "DRIVER") =>
       Shown \in {"ReportForm", "DriverDashboard"}
  /\ (user # Null /\ user.role = "ADMIN") =>
       Shown \in {"AdminDashboard", "AdminManagement"}

\* C27: the screen matches the session: with no user the login screen,
\* for a DRIVER user the report form or the driver dashboard and nothing
\* else, for an ADMIN user the admin dashboard or the management page,
\* whatever currentView holds; and every login that succeeds leaves
\* currentView at "dashboard".
C27_ViewMatchesRole ==
  /\ []RoleMatches
  /\ [][(user' # Null /\ user' # user) => currentView' = "dashboard"]_vars

----------------------------------------------------------------------------
(* Login harness: the login screen over every state the two credential    *)
(* stores can have been left in by earlier password changes               *)

StoredPasswords == {Null, Some(Pwd4)}

LoginInit ==
  /\ rDrivers = MOCK_DRIVERS
  /\ rReports = MapSeq(rowOfReport, SeedReports)
  /\ rAdminPwd \in StoredPasswords
  /\ lsAdminPwd \in StoredPasswords
  /\ lsDrivers = Null
  /\ lsReports = Null
  /\ user = Null
  /\ drivers = <<>>
  /\ reports = <<>>
  /\ currentView = "dashboard"
  /\ isLoading = TRUE
  /\ initPending = [drivers |-> Null, reports |-> Null]
  /\ error = ""
  /\ editingReport = Null
  /\ nKeys = 0
  /\ pwdMessage = NoMessage
  /\ pwdTimers = 0
  /\ calls = << Call("getDrivers", Null, "init", "initData"),
                Call("getReports", Null, "init", "initData") >>
  /\ nOps = 0
  /\ nextId = 3
  /\ ev = NoEvent
  /\ ParseIdle
  /\ FilterIdle

LoginNext ==
  \/ \E i \in 1..Len(calls) : RemoteOk(i)
  \/ \E i \in 1..Len(calls) : RemoteFail(i)
  \/ \E id \in Ids(drivers) \cup {0}, pin \in DriverPins : LoginDriver(id, pin)
  \/ \E pin \in LoginPasswords : LoginAdmin(pin)
  \/ Logout

SpecLogin == LoginInit /\ [][LoginNext]_vars

AdminLookupDone == ev.kind = "done" /\ ev.op = "getAdminPassword"

\* the login made with password "admin" that has just completed was accepted
AdminAccepted == ev.pin = Chars("admin") => user = AdminUser

\* C16, as stated: getAdminPassword returns "admin" when the remote lookup
\* fails while no local credential is set, and also whenever the remote
\* table holds no row; a login with "admin" then succeeds.
C16_AsStated ==
  (/\ AdminLookupDone
   /\ \/ (ev.own = "fail" /\ lsAdminPwd = Null)
      \/ ev.nested = "norow") =>
    /\ ev.result = Chars("admin")
    /\ AdminAccepted

\* C16, amended: getAdminPassword returns "admin" when the remote lookup
\* fails or finds no row while no local credential is set; a login with
\* "admin" then succeeds.
C16_DefaultWhenUnset ==
  (/\ AdminLookupDone
   /\ ev.own = "fail"
   /\ lsAdminPwd = Null) =>
    /\ ev.result = Chars("admin")
    /\ AdminAccepted

\* the lookup found no row, no local credential is set, and the login with
\* "admin" went through
C16_Witness ==
  /\ AdminLookupDone /\ ev.own = "fail" /\ ev.nested = "norow"
  /\ lsAdminPwd = Null /\ rAdminPwd = Null
  /\ ev.pin = Chars("admin") /\ ev.result = Chars("admin")
  /\ user = AdminUser

----------------------------------------------------------------------------
(* Parser harness: getVal applied to one input value *)

MaxStrLen == 4

ParseAlphabet == {"1", "2", ".", ",", "a"}

RECURSIVE StringsUpTo(_)
StringsUpTo(len) ==
  IF len = 0 THEN {<<>>}
  ELSE LET shorter == StringsUpTo(len - 1)
       IN  shorter \cup {Append(s, c) : s \in shorter, c \in ParseAlphabet}

SpecExamples ==
  { <<"1", ",", "2", "3", "4", ".", "5", "6", "a", "b", "c">>,
    <<".", ".", "1", ".", "2", ".", "3">>,
    <<"1", ".", "2", ".", "3">> }

\* numbers a caller can hand to getVal: amounts as stored (0, 7, 1.5 and
\* 0.0000001, which parseFloat gives for "0.0000001"), a negative, NaN
NumericInputs == {Num(0), Num(7), Norm(15, 1), Norm(1, 7), Num(0 - 5), NaN}

ParseInputs ==
  {Str(s) : s \in StringsUpTo(MaxStrLen) \cup SpecExamples} \cup NumericInputs

ParseInit ==
  /\ pIn \in ParseInputs
  /\ pOut = NoResult
  /\ FilterIdle
  /\ AppInit

ParseStep ==
  /\ pOut = NoResult
  /\ pOut' = [form |-> getValForm(pIn), edit |-> getValEdit(pIn)]
  /\ UNCHANGED <<pIn, filterVars, appVars>>

ParseNext == ParseStep

SpecParse == ParseInit /\ [][ParseNext]_vars

(* What the parsers are expected to compute, stated on the text itself *)

DotCount(s) == Len(SelectSeq(s, LAMBDA c : c = "."))

RECURSIVE FirstDotOnly(_)
FirstDotOnly(s) ==
  IF s = <<>> THEN <<>>
  ELSE IF s[1] = "." THEN <<".">> \o SelectSeq(Tail(s), LAMBDA c : c # ".")
  ELSE <<s[1]>> \o FirstDotOnly(Tail(s))

RECURSIVE BeforeSecondDot(_)
BeforeSecondDot(s) ==
  IF DotCount(s) < 2 THEN s ELSE BeforeSecondDot(SubSeq(s, 1, Len(s) - 1))

\* the decimal number written by a text over digits with at most one '.',
\* 0 when it holds no digit
DecimalValue(s) ==
  LET digits == SelectSeq(s, LAMBDA c : c \in DigitChars)
      dot    == IF DotCount(s) = 0 THEN Len(s)
                ELSE CHOOSE i \in 1..Len(s) : s[i] = "."
  IN  IF digits = <<>> THEN Num(0) ELSE Norm(DigitsToInt(digits), Len(s) - dot)

Ex1234_56abc == Str(<<"1", ",", "2", "3", "4", ".", "5", "6", "a", "b", "c">>)
ExDots == Str(<<".", ".", "1", ".", "2", ".", "3">>)

\* C3 as stated: getVal drops every character that is not a digit or '.',
\* keeps only the first '.', yields 0 on empty or unparseable text, and
\* parse("1,234.56abc") = 1234.56, parse("") = 0, parse("..1.2.3") = 1.2.
C3_AsStated ==
  (pOut # NoResult /\ pIn.t = "str") =>
    /\ pOut.form = DecimalValue(FirstDotOnly(Cleaned(pIn.s)))
    /\ pIn = Ex1234_56abc => pOut.form = Norm(123456, 2)
    /\ pIn = Str(<<>>) => pOut.form = Num(0)
    /\ pIn = ExDots => pOut.form = Norm(12, 1)

\* C3 amended: getVal (create form and edit dialogs alike) drops every
\* character that is not a digit or '.', parses only the text before the
\* second '.', and yields 0 when that text holds no digit;
\* parse("1,234.56abc") = 1234.56, parse("") = 0, parse("..1.2.3") = 0.
C3_ParsesBeforeSecondDot ==
  (pOut # NoResult /\ pIn.t = "str") =>
    /\ pOut.form = DecimalValue(BeforeSecondDot(Cleaned(pIn.s)))
    /\ pOut.edit = pOut.form
    /\ pIn = Ex1234_56abc => pOut.form = Norm(123456, 2)
    /\ pIn = Str(<<>>) => pOut.form = Num(0)
    /\ pIn = ExDots => pOut.form = Num(0)

C3_Witness ==
  /\ pIn = ExDots
  /\ pOut # NoResult
  /\ pOut.form = Num(0)
  /\ pOut.edit = Num(0)

\* C23: the create-form parser and the edit-dialog parser return the same
\* number for every input, a string or a number.
C23_ParsersAgree ==
  pOut # NoResult => pOut.edit = pOut.form

----------------------------------------------------------------------------
(* Round-trip harness: a report is created by the report form, stored,    *)
(* listed, opened in the edit dialog and saved with no field changed      *)

\* what is typed into an amount field of the report form
AmountTexts ==
  {Blank, Str(<<"7">>), Str(<<"1", ".", "5">>), Str(<<"0", ".", "0", "0", "0", "4">>),
   Str(<<"0", ".", "0", "0", "0", "0", "0", "0", "1">>)}

RoundTripForms ==
  {[local |-> a, outstation |-> Blank, mixed |-> Blank, fuel |-> b,
    maintenance |-> Blank, toll |-> Blank, other |-> Blank, salary |-> c,
    kmsDriven |-> Str(<<"7">>), loginTime |-> "", logoutTime |-> "", notes |-> ""] :
     a \in AmountTexts, b \in AmountTexts, c \in AmountTexts}

RoundTripInit ==
  /\ pIn \in RoundTripForms
  /\ pOut = NoResult
  /\ FilterIdle
  /\ AppInit

\* handleSubmit, then the report as listed, then handleUpdateReport on it
EditUnchanged(listedAs(_)) ==
  LET created == newReport(MOCK_DRIVERS[1], Date(2024, 3, 15), pIn, 301, 0)
  IN  /\ pOut = NoResult
      /\ pOut' = [created |-> created, saved |-> updated(listedAs(created))]
      /\ UNCHANGED <<pIn, filterVars, appVars>>

\* the report went to the table service and was read back by getReports
EditFromRemote == EditUnchanged(LAMBDA r : reportOfRow(rowOfReport(r)))

\* the report went to the local collection and was read back from it
EditFromLocal == EditUnchanged(jsonReport)

RoundTripNext == EditFromRemote \/ EditFromLocal

SpecRoundTrip == RoundTripInit /\ [][RoundTripNext]_vars

\* C24: a report created through the report form, opened in the edit
\* dialog and saved with no field changed, is written equal to the original
\* in every field.
C24_EditUnchangedIsIdentity ==
  pOut # NoResult => pOut.saved = pOut.created

----------------------------------------------------------------------------
(* Filter harness: one stored report rendered by each dashboard under one  *)
(* filter setting, at one instant in one time zone                         *)

ReportDates ==
  {YMD(n) : n \in DayNum(Date(2024, 2, 20)) .. DayNum(Date(2024, 4, 2))}
    \cup {Date(2023, 12, 31), Date(2024, 1, 1), Date(2024, 1, 31), Date(2024, 2, 1)}

NowDays ==
  {Date(2023, 12, 31), Date(2024, 1, 1), Date(2024, 2, 29), Date(2024, 3, 1),
   Date(2024, 3, 15), Date(2024, 3, 31)}

\* minutes after midnight UTC at which the dashboard is looked at
TimesOfDay == {0, 12 * 60, 23 * 60 + 59}

\* UTC-12, UTC-5, UTC, UTC+5:30 (India), UTC+14
TzOffsets == {0 - 12 * 60, 0 - 5 * 60, 0, 5 * 60 + 30, 14 * 60}

CustomBounds ==
  {BlankDate, Date(2024, 2, 29), Date(2024, 3, 1), Date(2024, 3, 15), Date(2024, 3, 31)}

DateFilters == {"all", "today", "week", "month", "year", "custom"}

FilterSettings ==
  {[dateFilter |-> f, customStart |-> BlankDate, customEnd |-> BlankDate] :
     f \in DateFilters}
  \cup {[dateFilter |-> "custom", customStart |-> a, customEnd |-> b] :
          a \in CustomBounds, b \in CustomBounds}

FilterDriverIds == {"1"}

FilterInit ==
  /\ fIn \in [now : {UtcMidnight(d) + t : d \in NowDays, t \in TimesOfDay},
               tz : TzOffsets,
               reports : {<<[id |-> "r1", driverId |-> i, date |-> d]>> :
                            i \in FilterDriverIds, d \in ReportDates}]
  /\ fOut = NoResult
  /\ ParseIdle
  /\ AppInit

\* AdminDashboard renders with the driver filter at "all" or at a driver
RenderAdmin ==
  /\ fOut = NoResult
  /\ \E st \in FilterSettings, fd \in {"all"} \cup FilterDriverIds :
       fOut' = [view |-> "admin", set |-> st, driver |-> fd,
                list |-> filteredReports(fIn.reports, fd, st.dateFilter,
                           st.customStart, st.customEnd, fIn.now, fIn.tz)]
  /\ UNCHANGED <<fIn, parseVars, appVars>>

\* DriverDashboard renders for the driver who is logged in
RenderDriver ==
  /\ fOut = NoResult
  /\ \E st \in FilterSettings, i \in FilterDriverIds :
       fOut' = [view |-> "driver", set |-> st, driver |-> i,
                list |-> myReports(fIn.reports, i, st.dateFilter,
                           st.customStart, st.customEnd, fIn.now, fIn.tz)]
  /\ UNCHANGED <<fIn, parseVars, appVars>>

FilterNext == RenderAdmin \/ RenderDriver

SpecFilter == FilterInit /\ [][FilterNext]_vars

\* the viewer's calendar day at the instant of the render
FToday == LocalFields(fIn.now, fIn.tz)

FDate == fIn.reports[1].date

\* the first input report is in the rendered list
FIncluded == \E k \in 1..Len(fOut.list) : fOut.list[k].id = fIn.reports[1].id

FirstOfNextMonth(f) ==
  IF f.m = 12 THEN Date(f.y + 1, 1, 1) ELSE Date(f.y, f.m + 1, 1)

\* C9: under "month" a report dated the first or the last day of the
\* viewer's current month is listed and one dated the first day of the next
\* month is not, whatever the current day and the time zone.
C9_MonthBoundaries ==
  (fOut # NoResult /\ fOut.set.dateFilter = "month") =>
    /\ FDate = Date(FToday.y, FToday.m, 1) => FIncluded
    /\ FDate = Date(FToday.y, FToday.m, DaysInMonth(FToday.y, FToday.m)) => FIncluded
    /\ FDate = FirstOfNextMonth(FToday) => ~FIncluded

\* new Date().toISOString().split('T')[0]: the calendar day of the instant
\* in UTC, the date the report form starts with
defaultDate(now) == YMD(now \div 1440)

\* C26: a report submitted with the report form's default date is listed
\* under the "today" filter when the dashboard is rendered at the same
\* instant, at every time of day and in every time zone of the viewer.
C26_DefaultDateListedToday ==
  (/\ fOut # NoResult
   /\ fOut.set.dateFilter = "today"
   /\ FDate = defaultDate(fIn.now)) => FIncluded

\* C10: under "custom" with both bounds set a report is listed exactly when
\* start <= report date <= end as calendar days, both bounds included.
C10_CustomRangeInclusive ==
  (/\ fOut # NoResult
   /\ fOut.set.dateFilter = "custom"
   /\ fOut.set.customStart # BlankDate
   /\ fOut.set.customEnd # BlankDate) =>
    (FIncluded <=> (/\ DayNum(fOut.set.customStart) <= DayNum(FDate)
                    /\ DayNum(FDate) <= DayNum(fOut.set.customEnd)))

\* a report dated exactly the end bound of a proper range is listed, west of UTC
C10_Witness ==
  /\ fOut # NoResult
  /\ fOut.set.dateFilter = "custom"
  /\ fOut.set.customStart = Date(2024, 2, 29)
  /\ fOut.set.customEnd = Date(2024, 3, 15)
  /\ FDate = Date(2024, 3, 15)
  /\ fIn.tz < 0
  /\ FIncluded

\* C11: under "custom" with the start bound or the end bound (or both)
\* blank, every report is listed whatever its date.
C11_BlankBoundMatchesAll ==
  (/\ fOut # NoResult
   /\ fOut.set.dateFilter = "custom"
   /\ (fOut.set.customStart = BlankDate \/ fOut.set.customEnd = BlankDate)) =>
    FIncluded

\* a report dated after the only bound that is set (the end) is listed
C11_Witness ==
  /\ fOut # NoResult
  /\ fOut.set.dateFilter = "custom"
  /\ fOut.set.customStart = BlankDate
  /\ fOut.set.customEnd = Date(2024, 3, 1)
  /\ FDate = Date(2024, 3, 31)
  /\ FIncluded

\* C12, as stated: under "week" a report is listed exactly when its calendar
\* day is one of the seven days before the viewer's today or today itself;
\* none dated earlier and none dated after today is listed.
C12_TrailingWeek ==
  (fOut # NoResult /\ fOut.set.dateFilter = "week") =>
    (FIncluded <=> (/\ DayNum(FToday) - 7 <= DayNum(FDate)
                    /\ DayNum(FDate) <= DayNum(FToday)))

----------------------------------------------------------------------------
(* List harness: the dashboards render a list of several stored reports *)

\* the drivers of the harness, with the identifiers as the filter sees them
ListDrivers ==
  << [id |-> "1", name |-> "Ramesh Kumar", vehicle |-> "TN 38 BR 1234", pin |-> "1234"],
     [id |-> "2", name |-> "Suresh Raj", vehicle |-> "TN 38 CS 5678", pin |-> "5678"] >>

\* amounts with more decimals than a statement cell shows
FineForm ==
  [local |-> Str(<<"0", ".", "0", "0", "0", "4">>), outstation |-> Blank,
   mixed |-> Blank, fuel |-> Str(<<"0", ".", "0", "0", "0", "4">>),
   maintenance |-> Blank, toll |-> Blank, other |-> Blank,
   salary |-> Str(<<"0", ".", "0", "0", "0", "4">>),
   kmsDriven |-> Blank, loginTime |-> "", logoutTime |-> "", notes |-> ""]

\* reports as the report form builds them; two share a date
ReportPool ==
  { newReport(ListDrivers[1], Date(2024, 3, 15), ScenarioForm, 201, 0),
    newReport(ListDrivers[2], Date(2024, 3, 15), OddForm, 202, 0),
    newReport(ListDrivers[1], Date(2024, 3, 9), FineForm, 203, 0),
    newReport(ListDrivers[2], Date(2024, 3, 16), ScenarioForm, 204, 0),
    newReport(ListDrivers[1], Date(2024, 3, 16), FineForm, 205, 0) }

MaxListLen == 3

\* the lists of up to MaxListLen different reports, in every order
ReportLists ==
  UNION {{l \in [1..n -> ReportPool] : \A i, j \in 1..n : i # j => l[i] # l[j]} :
           n \in 0..MaxListLen}

ListNows == {UtcMidnight(Date(2024, 3, 15)), UtcMidnight(Date(2024, 3, 16)) + 12 * 60}

ListInit ==
  /\ fIn \in [now : ListNows, tz : TzOffsets, reports : ReportLists]
  /\ fOut = NoResult
  /\ ParseIdle
  /\ AppInit

\* acc + x over a list of numbers, from 0
RECURSIVE SumNums(_)
SumNums(xs) ==
  IF xs = <<>> THEN Num(0)
  ELSE Add(SumNums(SubSeq(xs, 1, Len(xs) - 1)), xs[Len(xs)])

Abs(n) == IF n < 0 THEN 0 - n ELSE n

\* the rounding of toLocaleString: at most three fraction digits, a half
\* goes away from zero
Round3(x) ==
  IF x.k <= 3 THEN x
  ELSE LET p  == Pow10(x.k - 3)
           q  == Abs(x.n) \div p
           up == IF 2 * (Abs(x.n) % p) >= p THEN q + 1 ELSE q
       IN  Norm(IF x.n < 0 THEN 0 - up ELSE up, 3)

RECURSIVE GroupPairs(_)
GroupPairs(d) ==
  IF Len(d) <= 2 THEN d
  ELSE GroupPairs(SubSeq(d, 1, Len(d) - 2)) \o <<",">> \o SubSeq(d, Len(d) - 1, Len(d))

\* en-IN grouping of the integer digits: the last three, then pairs
GroupIN(d) ==
  IF Len(d) <= 3 THEN d
  ELSE GroupPairs(SubSeq(d, 1, Len(d) - 3)) \o <<",">> \o SubSeq(d, Len(d) - 2, Len(d))

\* x.toLocaleString('en-IN'), the text of a statement cell
toLocaleString(x) ==
  IF x.t = "nan" THEN <<"N", "a", "N">>
  ELSE LET r      == Round3(x)
           d      == IntToDigits(Abs(r.n))
           padded == IF Len(d) <= r.k THEN Zeros(r.k - Len(d) + 1) \o d ELSE d
           L      == Len(padded)
       IN  (IF x.n < 0 THEN <<"-">> ELSE <<>>)
             \o GroupIN(SubSeq(padded, 1, L - r.k))
             \o (IF r.k = 0 THEN <<>> ELSE <<".">> \o SubSeq(padded, L - r.k + 1, L))

\* the amount a reader takes from the text of a cell
AmountOfCell(text) ==
  IF text = <<"N", "a", "N">> THEN NaN
  ELSE LET neg  == text # <<>> /\ text[1] = "-"
           body == SelectSeq(IF neg THEN Tail(text) ELSE text, LAMBDA ch : ch # ",")
           v    == ParseFloat(body)
       IN  IF neg THEN Norm(0 - v.n, v.k) ELSE v

\* handleGeneratePDF: the numeric cells of a tableRows entry
tableRow(report) ==
  [revenue |-> toLocaleString(report.totalIncome),
   expense |-> toLocaleString(
                 Add(Add(Add(report.expenses.fuel, report.expenses.maintenance),
                         report.expenses.toll), report.expenses.other)),
   salary  |-> toLocaleString(OrZero(report.driverSalary)),
   profit  |-> toLocaleString(report.netProfit)]

\* the footer whose profit takes off totalTripExpenses, salary included,
\* and then the salary again
footerRowSalaryTwice(list) ==
  LET Col(f(_)) == SumNums([k \in 1..Len(list) |-> f(list[k])])
      totalIncome == Col(LAMBDA r : r.totalIncome)
      totalTripExpenses == Col(LAMBDA r : r.totalExpenses)
      totalSalary == Col(LAMBDA r : OrZero(r.driverSalary))
  IN  [revenue |-> toLocaleString(totalIncome),
       expense |-> toLocaleString(Sub(totalTripExpenses, totalSalary)),
       salary  |-> toLocaleString(totalSalary),
       profit  |-> toLocaleString(Sub(Sub(totalIncome, totalTripExpenses), totalSalary))]

\* AdminDashboard aggregates and handleGeneratePDF: the numeric cells of footerRow
footerRow(list) ==
  LET Col(f(_)) == SumNums([k \in 1..Len(list) |-> f(list[k])])
      totalIncome == Col(LAMBDA r : r.totalIncome)
      totalSalary == Col(LAMBDA r : OrZero(r.driverSalary))
      rawFuel  == Col(LAMBDA r : r.expenses.fuel)
      rawMaint == Col(LAMBDA r : r.expenses.maintenance)
      rawToll  == Col(LAMBDA r : r.expenses.toll)
      rawOther == Col(LAMBDA r : r.expenses.other)
      calculatedTripExpensesOnly == Add(Add(Add(rawFuel, rawMaint), rawToll), rawOther)
      calculatedNetProfit ==
        Sub(Sub(totalIncome, calculatedTripExpensesOnly), totalSalary)
  IN  [revenue |-> toLocaleString(totalIncome),
       expense |-> toLocaleString(calculatedTripExpensesOnly),
       salary  |-> toLocaleString(totalSalary),
       profit  |-> toLocaleString(calculatedNetProfit)]

\* AdminDashboard.handleGeneratePDF on the list the dashboard shows
GeneratePDF ==
  /\ fOut # NoResult /\ fOut.view = "admin"
  /\ fOut' = [view |-> "statement", set |-> fOut.set, driver |-> fOut.driver,
              list |-> fOut.list,
              rows |-> [k \in 1..Len(fOut.list) |-> tableRow(fOut.list[k])],
              foot |-> footerRow(fOut.list)]
  /\ UNCHANGED <<fIn, parseVars, appVars>>

ListNext == RenderAdmin \/ RenderDriver \/ GeneratePDF

SpecList == ListInit /\ [][ListNext]_vars

\* report r passes the driver test and the date test of the render in fOut
FPasses(r) ==
  /\ fOut.driver # "all" => r.driverId = fOut.driver
  /\ datePasses(r.date, fOut.set.dateFilter, fOut.set.customStart,
                fOut.set.customEnd, fIn.now, fIn.tz)

FPositions(list, r) == {k \in 1..Len(list) : list[k] = r}

C14_DriverRestriction ==
  fOut # NoResult =>
    /\ fOut.driver # "all" =>
         \A k \in 1..Len(fOut.list) : fOut.list[k].driverId = fOut.driver
    /\ (fOut.view = "admin" /\ fOut.driver = "all") =>
         \A i \in 1..Len(fIn.reports) :
           datePasses(fIn.reports[i].date, fOut.set.dateFilter, fOut.set.customStart,
                      fOut.set.customEnd, fIn.now, fIn.tz)
             => FPositions(fOut.list, fIn.reports[i]) # {}

\* the driver dashboard under "custom" with blank bounds leaves out the
\* other driver's reports and keeps its own
C14_Witness ==
  /\ fOut # NoResult /\ fOut.view = "driver"
  /\ fOut.set.dateFilter = "custom" /\ fOut.set.customStart = BlankDate
  /\ Len(fIn.reports) = 3 /\ Len(fOut.list) = 1
  /\ fOut.list[1].driverId = fOut.driver

StatementColumns == {"revenue", "expense", "salary", "profit"}

ColumnOfRows(col) ==
  SumNums([k \in 1..Len(fOut.rows) |-> AmountOfCell(fOut.rows[k][col])])

\* the amount that the cell of report r in column col is formatted from
RowValue(r, col) ==
  IF col = "revenue" THEN r.totalIncome
  ELSE IF col = "expense"
    THEN Add(Add(Add(r.expenses.fuel, r.expenses.maintenance), r.expenses.toll),
             r.expenses.other)
  ELSE IF col = "salary" THEN OrZero(r.driverSalary)
  ELSE r.netProfit

ColumnOfValues(col) ==
  SumNums([k \in 1..Len(fOut.list) |-> RowValue(fOut.list[k], col)])

\* every amount of column col is shown in full by its cell
ShownInFull(col) ==
  \A k \in 1..Len(fOut.list) : RowValue(fOut.list[k], col).k <= 3

\* C19, as stated: in the exported statement each numeric cell of the
\* totals footer row (revenue, expense, salary, profit) equals the sum of
\* that column over the per-record rows.
C19_FooterIsColumnSum ==
  (fOut # NoResult /\ fOut.view = "statement") =>
    \A col \in StatementColumns : AmountOfCell(fOut.foot[col]) = ColumnOfRows(col)

\* C19, amended: each footer cell is the formatting of the sum of the
\* amounts its column's row cells are formatted from, and equals the sum of
\* the row cells when no amount of the column has more than three decimals.
C19_FooterFormatsColumnSum ==
  (fOut # NoResult /\ fOut.view = "statement") =>
    \A col \in StatementColumns :
      /\ fOut.foot[col] = toLocaleString(ColumnOfValues(col))
      /\ \A k \in 1..Len(fOut.rows) :
           fOut.rows[k][col] = toLocaleString(RowValue(fOut.list[k], col))
      /\ ShownInFull(col) => AmountOfCell(fOut.foot[col]) = ColumnOfRows(col)

\* a statement of two rows, 500 and 1.7 of revenue, 350 and -3.55 of profit
C19_Witness ==
  /\ fOut # NoResult /\ fOut.view = "statement"
  /\ Len(fOut.rows) = 2
  /\ fOut.rows[1].revenue = <<"5", "0", "0">>
  /\ fOut.rows[2].revenue = <<"1", ".", "7">>
  /\ fOut.foot.revenue = <<"5", "0", "1", ".", "7">>
  /\ fOut.rows[2].profit = <<"-", "3", ".", "5", "5">>
  /\ fOut.foot.profit = <<"3", "4", "6", ".", "4", "5">>

====
